---- MODULE Spec2Model ----
(***************************************************************************)
(* Status-refresh and command-dispatch coordination of the Docker          *)
(* container TUI (src/gui/tui/src): DockerTUIApp, DockerClient,            *)
(* CommandExecutor, ServiceListScreen and OperationsScreen.                *)
(*                                                                         *)
(* The asyncio event loop runs one handler segment at a time: a            *)
(* synchronous handler, or the part of a coroutine between two awaits, is  *)
(* one action.  Delegated commands run in worker threads                   *)
(* (asyncio.to_thread) and finish independently of the event loop.         *)
(***************************************************************************)
EXTENDS Integers, Sequences, FiniteSets, TLC

\* ------------------------------------------------------------------ bounds
\* refresh_status calls explored in one behaviour
MaxRefresh == 2
\* auto-refresh tasks created in one behaviour
MaxTasks == 2
\* dispatch invocations (action_service_action / action_execute_operation)
MaxInv == 2
\* direct calls of CommandExecutor._execute_command in one behaviour
MaxCalls == 3
\* length of the name list of a direct get_multiple_container_status call
MaxNames == 3

\* actions taken on the services table
MaxPicks == 2

\* --------------------------------------------------------- service catalog
\* container_name of a ServiceConfig that declares none (dataclass default)
NoneName == "None"

\* config/services.py SERVICES, in dict order (get_all_services)
SERVICES ==
  << [id |-> "postgresql", container_name |-> "postgres", containers |-> << >>,
      start |-> "start-postgres", stop |-> "stop-postgres"],
     [id |-> "redis", container_name |-> "redis", containers |-> << >>,
      start |-> "start-redis", stop |-> "stop-redis"],
     [id |-> "opensearch", container_name |-> NoneName,
      containers |-> << "opensearch-node", "opensearch-dashboards" >>,
      start |-> "start-opensearch", stop |-> "stop-opensearch"] >>

Range(s) == { s[k] : k \in DOMAIN s }

\* every container identity the catalog declares: the container of a single
\* service and every child container of a grouped one
CatalogContainers ==
  UNION { IF Len(SERVICES[k].containers) = 0
          THEN { SERVICES[k].container_name }
          ELSE Range(SERVICES[k].containers) : k \in DOMAIN SERVICES }

\* names the Status Source can be asked about
AllNames == CatalogContainers \cup { NoneName }

\* ------------------------------------------------------------ Status Source
\* outcome of one docker-py call: it returns, raises a DockerException, or
\* raises something else (a requests timeout, an OSError)
CallOutcomes == { "ok", "docker_error", "other_error" }

\* what containers.get(name) does for one name: the container's status, or
\* NotFound / APIError / another exception
GetOutcomes == { "running", "exited", "NotFound", "APIError", "Exception" }

\* DockerClient._connect: [client |-> the handle afterwards, ret |-> result]
Connect(c, from_env, ping) ==
  IF from_env = "docker_error" THEN [client |-> FALSE, ret |-> "false"]
  ELSE IF from_env = "other_error" THEN [client |-> c, ret |-> "raise"]
  ELSE IF ping = "ok" THEN [client |-> TRUE, ret |-> "true"]
  ELSE IF ping = "docker_error" THEN [client |-> FALSE, ret |-> "false"]
  ELSE [client |-> TRUE, ret |-> "raise"]

\* DockerClient.is_connected
IsConnected(c, ping) ==
  IF ~c THEN "false"
  ELSE IF ping = "ok" THEN "true"
  ELSE IF ping = "docker_error" THEN "false"
  ELSE "raise"

\* DockerClient.get_container_status: a ContainerStatus for every name
GetContainerStatus(name, c, got) ==
  IF ~c THEN [name |-> name, status |-> "error"]
  ELSE IF got = "NotFound" THEN [name |-> name, status |-> "not_found"]
  ELSE IF got \in { "APIError", "Exception" }
       THEN [name |-> name, status |-> "error"]
  ELSE [name |-> name, status |-> got]

\* get_multiple_container_status that gives up at the first lookup that
\* does not return a container
GetMultipleContainerStatusAborts(names, c, oracle) ==
  [ n \in { names[k] : k \in { m \in DOMAIN names :
                \A j \in 1 .. m : oracle[names[j]] \in { "running", "exited" } } }
      |-> GetContainerStatus(n, c, oracle[n]) ]

\* DockerClient.get_multiple_container_status: a dict keyed by the names
GetMultipleContainerStatus(names, c, oracle) ==
  [ n \in Range(names) |-> GetContainerStatus(n, c, oracle[n]) ]

\* the answers of the container runtime explored by the coordination model
Oracles ==
  { [ n \in AllNames |-> IF n = NoneName THEN "Exception" ELSE "running" ],
    [ n \in AllNames |->
        CASE n = "postgres" -> "exited"
          [] n = "redis" -> "NotFound"
          [] n = "opensearch-node" -> "APIError"
          [] n = "opensearch-dashboards" -> "exited"
          [] OTHER -> "Exception" ] }

\* ------------------------------------------------------------------- state
VARIABLES
  phase,               \* "constructed", "mounted" or "unmounted"
  command_executor,    \* DockerTUIApp.command_executor is not None
  client,              \* DockerClient._client is not None
  container_statuses,  \* DockerTUIApp.container_statuses
  last_refresh,        \* DockerTUIApp.last_refresh: 0 for None, else the
                       \* time of the n-th completed poll
  connection_status,   \* text of the #connection-status widget
  refresh_task,        \* DockerTUIApp._refresh_task, 0 for None
  tasks,               \* the auto-refresh tasks created so far
  scr,                 \* the pushed ServiceListScreen and its status dict
  inv,                 \* the dispatch invocations
  inflight,            \* callers whose refresh_status has not returned yet
  nrefresh,            \* refreshes asked for by the user or the loop so far
  call,                \* what the most recent refresh_status call did
  unhandled,           \* an exception escaped a handler into the framework
  executed,            \* CommandExecutor._execute_command calls made directly
  looked_up,           \* the last direct get_multiple_container_status call
  cli,                 \* the run of main(): its options and how it ended
  direct,              \* a DockerClient constructed by a caller of its own
  viewer,              \* the LogViewerScreen: tail_lines, its last action,
                       \* the follow task and the length of logs_content
  table                \* the services table: the highlighted row and the
                       \* actions taken on it

vars == << phase, command_executor, client, container_statuses, last_refresh,
           connection_status, refresh_task, tasks, scr, inv, inflight,
           nrefresh, call, unhandled, executed, looked_up, cli, direct,
           viewer, table >>

Tasks == 1 .. MaxTasks
Invs == 1 .. MaxInv

\* a dict without entries
EmptyDict == [ n \in {} |-> [name |-> n, status |-> "error"] ]

NoCall == [seq |-> 0, connected |-> "none", reconnect |-> "none",
           attempts |-> 0, outcome |-> "none", lookups |-> 0, notified |-> 0]

\* no direct lookup has been made
NoLookup == [names |-> << >>, got |-> << >>, client |-> FALSE,
             statuses |-> EmptyDict]

\* main() has not run
NoMain == [ran |-> FALSE, interval |-> 0, prereqs_ok |-> FALSE,
           repo_found |-> FALSE, docker |-> "none", run |-> "none",
           exit |-> 0, stage |-> "none", prereqs_checked |-> FALSE,
           constructed |-> FALSE, applied |-> {}]

\* no DockerClient has been constructed directly
NoClient == [state |-> "none", ctor |-> << >>, client |-> FALSE,
             calls |-> << >>]

\* LogViewerScreen.__init__: self.tail_lines = 100
TailInitial == 100

\* the LogViewerScreen after its construction
NewViewer == [tail_lines |-> TailInitial, last |-> "init",
              refreshed |-> FALSE, warned |-> FALSE, stage |-> "constructed",
              following |-> FALSE, follow_task |-> "none", live |-> 0,
              len |-> 0]

\* ServiceListScreen after _setup_table: the cursor is moved to row 0 and
\* no action was taken yet
NewTable == [cursor_row |-> 0, selected |-> "postgresql", picks |-> << >>]


NoResult == [success |-> FALSE, return_code |-> 0, stderr |-> "none"]

IdleInv == [kind |-> "none", via |-> "none", pc |-> "unused", key |-> "none",
            cmd |-> "none", thread |-> "idle", result |-> NoResult,
            log |-> << >>, decline |-> FALSE]

\* DockerTUIApp.__init__: the executor may be missing, the Docker client may
\* have failed to connect
Init ==
  /\ phase = "constructed"
  /\ command_executor \in BOOLEAN
  /\ client \in BOOLEAN
  /\ container_statuses = EmptyDict
  /\ last_refresh = 0
  /\ connection_status = ""
  /\ refresh_task = 0
  /\ tasks = [ t \in Tasks |-> "unborn" ]
  /\ scr = [open |-> FALSE, container_statuses |-> EmptyDict]
  /\ inv = [ i \in Invs |-> IdleInv ]
  /\ inflight = {}
  /\ nrefresh = 0
  /\ call = NoCall
  /\ unhandled = FALSE
  /\ executed = << >>
  /\ looked_up = NoLookup
  /\ cli = NoMain
  /\ direct = NoClient
  /\ viewer = NewViewer
  /\ table = NewTable

RefreshYieldsAwaits == TRUE

\* ------------------------------------------------------ Refresh Coordinator
\* refresh_status is a plain function: it never awaits, so it keeps the
\* event-loop thread from its first statement to its return
RefreshYields == FALSE

\* a handler that has ended: returned, been cancelled, or raised
Final == { "done", "cancelled", "crashed" }

\* no ended handler is waiting to be discarded
Settled == \A j \in DOMAIN inv : inv[j].pc \notin Final

\* an event loop that runs no handler while a delegated command executes
LoopFreeBlocking ==
  /\ Settled /\ (RefreshYields \/ inflight = {})
  /\ \A j \in DOMAIN inv : inv[j].thread # "running"

\* the event-loop thread is free to run another handler segment
LoopFree == Settled /\ (RefreshYields \/ inflight = {})

\* the names refresh_status asks the Status Source about
ContainerNames == [ k \in DOMAIN SERVICES |-> SERVICES[k].container_name ]

\* refresh_status without the return after a failed reconnect
RefreshHeadNoReturn(c, shown, ping1, from_env, ping2) ==
  LET ic == IsConnected(c, ping1)
      r == Connect(c, from_env, ping2)
  IN IF ic = "raise"
     THEN [outcome |-> "raised", client |-> c, signal |-> shown,
           connected |-> ic, reconnect |-> "none",
           attempts |-> 0]
     ELSE IF ic = "true"
     THEN [outcome |-> "proceed", client |-> c, signal |-> "Connected",
           connected |-> ic, reconnect |-> "none",
           attempts |-> 0]
     ELSE IF r.ret = "raise"
     THEN [outcome |-> "raised", client |-> r.client, signal |-> shown,
           connected |-> ic, reconnect |-> "raise",
           attempts |-> 1]
     ELSE [outcome |-> "proceed", client |-> r.client, signal |-> "Connected",
           connected |-> ic, reconnect |-> r.ret,
           attempts |-> 1]

\* refresh_status with the reconnect test inverted: it gives up when the
\* reconnect succeeded
RefreshHeadInverted(c, shown, ping1, from_env, ping2) ==
  LET ic == IsConnected(c, ping1)
      r == Connect(c, from_env, ping2)
  IN IF ic = "raise"
     THEN [outcome |-> "raised", client |-> c, signal |-> shown,
           connected |-> ic, reconnect |-> "none",
           attempts |-> 0]
     ELSE IF ic = "true"
     THEN [outcome |-> "proceed", client |-> c, signal |-> "Connected",
           connected |-> ic, reconnect |-> "none",
           attempts |-> 0]
     ELSE IF r.ret = "raise"
     THEN [outcome |-> "raised", client |-> r.client, signal |-> shown,
           connected |-> ic, reconnect |-> "raise",
           attempts |-> 1]
     ELSE IF r.ret = "true"
     THEN [outcome |-> "abandoned", client |-> r.client,
           signal |-> "Disconnected", connected |-> ic, reconnect |-> "true",
           attempts |-> 1]
     ELSE [outcome |-> "proceed", client |-> r.client, signal |-> "Connected",
           connected |-> ic, reconnect |-> "false",
           attempts |-> 1]

\* refresh_status that tries a failed reconnect a second time
RefreshHeadRetry(c, shown, ping1, from_env, ping2) ==
  LET ic == IsConnected(c, ping1)
      r == Connect(c, from_env, ping2)
  IN IF ic = "raise"
     THEN [outcome |-> "raised", client |-> c, signal |-> shown,
           connected |-> ic, reconnect |-> "none", attempts |-> 0]
     ELSE IF ic = "true"
     THEN [outcome |-> "proceed", client |-> c, signal |-> "Connected",
           connected |-> ic, reconnect |-> "none", attempts |-> 0]
     ELSE IF r.ret = "raise"
     THEN [outcome |-> "raised", client |-> r.client, signal |-> shown,
           connected |-> ic, reconnect |-> "raise", attempts |-> 1]
     ELSE IF r.ret = "false"
     THEN [outcome |-> "abandoned", client |-> r.client,
           signal |-> "Disconnected", connected |-> ic, reconnect |-> "false",
           attempts |-> 2]
     ELSE [outcome |-> "proceed", client |-> r.client, signal |-> "Connected",
           connected |-> ic, reconnect |-> "true", attempts |-> 1]

\* refresh_status that gives up after a failed reconnect without the
\* "Disconnected" signal
RefreshHeadSilentAbandon(c, shown, ping1, from_env, ping2) ==
  LET ic == IsConnected(c, ping1)
      r == Connect(c, from_env, ping2)
  IN IF ic = "raise"
     THEN [outcome |-> "raised", client |-> c, signal |-> shown,
           connected |-> ic, reconnect |-> "none",
           attempts |-> 0]
     ELSE IF ic = "true"
     THEN [outcome |-> "proceed", client |-> c, signal |-> "Connected",
           connected |-> ic, reconnect |-> "none",
           attempts |-> 0]
     ELSE IF r.ret = "raise"
     THEN [outcome |-> "raised", client |-> r.client, signal |-> shown,
           connected |-> ic, reconnect |-> "raise",
           attempts |-> 1]
     ELSE IF r.ret = "false"
     THEN [outcome |-> "abandoned", client |-> r.client,
           signal |-> shown, connected |-> ic, reconnect |-> "false",
           attempts |-> 1]
     ELSE [outcome |-> "proceed", client |-> r.client, signal |-> "Connected",
           connected |-> ic, reconnect |-> "true",
           attempts |-> 1]

\* refresh_status up to the connection signal: connectivity check, the
\* reconnect attempt and the signal shown
RefreshHead(c, shown, ping1, from_env, ping2) ==
  LET ic == IsConnected(c, ping1)
      r == Connect(c, from_env, ping2)
  IN IF ic = "raise"
     THEN [outcome |-> "raised", client |-> c, signal |-> shown,
           connected |-> ic, reconnect |-> "none",
           attempts |-> 0]
     ELSE IF ic = "true"
     THEN [outcome |-> "proceed", client |-> c, signal |-> "Connected",
           connected |-> ic, reconnect |-> "none",
           attempts |-> 0]
     ELSE IF r.ret = "raise"
     THEN [outcome |-> "raised", client |-> r.client, signal |-> shown,
           connected |-> ic, reconnect |-> "raise",
           attempts |-> 1]
     ELSE IF r.ret = "false"
     THEN [outcome |-> "abandoned", client |-> r.client,
           signal |-> "Disconnected", connected |-> ic, reconnect |-> "false",
           attempts |-> 1]
     ELSE [outcome |-> "proceed", client |-> r.client, signal |-> "Connected",
           connected |-> ic, reconnect |-> "true",
           attempts |-> 1]

\* _auto_refresh_loop whose body runs once instead of under while True
AutoRefreshLoopCatchOnce(outcome) ==
  IF outcome = "raised" THEN [task |-> "done", notified |-> 1]
  ELSE [task |-> "done", notified |-> 0]

\* _auto_refresh_loop that leaves its while loop when refresh_status raises
AutoRefreshLoopCatchBreaks(outcome) ==
  IF outcome = "raised" THEN [task |-> "done", notified |-> 1]
  ELSE [task |-> "sleeping", notified |-> 0]

\* the except clause of _auto_refresh_loop for a refresh_status call that
\* ended with outcome: what the task does next and how many "Auto-refresh
\* error" notifications it emits
AutoRefreshLoopCatch(outcome) ==
  IF outcome = "raised" THEN [task |-> "sleeping", notified |-> 1]
  ELSE [task |-> "sleeping", notified |-> 0]

Heads ==
  { RefreshHead(client, connection_status, p1, fe, p2) :
      p1 \in CallOutcomes, fe \in CallOutcomes, p2 \in CallOutcomes }

\* refresh_status that takes the time at its first statement
BeginRefreshStamps(cl, h) ==
  /\ client' = h.client
  /\ connection_status' = h.signal
  /\ call' = [seq |-> 1 - call.seq, connected |-> h.connected,
              reconnect |-> h.reconnect, attempts |-> h.attempts,
              outcome |-> IF h.outcome = "proceed" THEN "inflight"
                          ELSE h.outcome,
              lookups |-> 0,
              notified |-> IF cl[1] = "loop"
                           THEN AutoRefreshLoopCatch(h.outcome).notified
                           ELSE 0]
  /\ inflight' = IF h.outcome = "proceed" THEN inflight \cup { cl }
                 ELSE inflight
  /\ last_refresh' = last_refresh + 1
  /\ UNCHANGED container_statuses

\* the first half of a refresh_status call by caller cl, with head h
BeginRefresh(cl, h) ==
  /\ client' = h.client
  /\ connection_status' = h.signal
  /\ call' = [seq |-> 1 - call.seq, connected |-> h.connected,
              reconnect |-> h.reconnect, attempts |-> h.attempts,
              outcome |-> IF h.outcome = "proceed" THEN "inflight"
                          ELSE h.outcome,
              lookups |-> 0,
              notified |-> IF cl[1] = "loop"
                           THEN AutoRefreshLoopCatch(h.outcome).notified
                           ELSE 0]
  /\ inflight' = IF h.outcome = "proceed" THEN inflight \cup { cl }
                 ELSE inflight
  /\ UNCHANGED << container_statuses, last_refresh >>

\* a refresh that writes the new entries into the dict it holds and keeps
\* the old entry of a container the poll did not find
ReplaceSnapshotInPlace(old, polled) ==
  [ n \in DOMAIN polled |->
      IF n \in DOMAIN old /\ polled[n].status = "not_found"
      THEN old[n] ELSE polled[n] ]

\* self.container_statuses = ...: the attribute is bound to the dict the
\* Status Source returned; the dict held before is not written to
ReplaceSnapshot(old, polled) == polled

\* the second half: the lookups, the replacement of the snapshot and the
\* timestamp
EndRefresh(cl, oracle) ==
  /\ cl \in inflight
  /\ container_statuses' =
       ReplaceSnapshot(container_statuses,
         GetMultipleContainerStatus(ContainerNames, client, oracle))
  /\ last_refresh' = last_refresh + 1
  /\ inflight' = inflight \ { cl }
  /\ call' = [call EXCEPT !.outcome = "completed",
                          !.lookups = Len(ContainerNames)]
  /\ UNCHANGED << client, connection_status >>

\* a task that can still be resumed: created and not started yet, or
\* suspended in the sleep of its loop
Alive == { "created", "sleeping" }

\* _start_auto_refresh that does not cancel the task it holds
StartedTasksNoCancel(t) ==
  [ u \in Tasks |-> IF u = t THEN "created" ELSE tasks[u] ]

\* _start_auto_refresh: cancel the held task, create a new one; the new
\* task has not run yet when create_task returns
StartedTasks(t) ==
  [ u \in Tasks |-> IF u = t THEN "created"
                    ELSE IF u = refresh_task /\ tasks[u] \in Alive
                    THEN "cancelling" ELSE tasks[u] ]

\* _stop_auto_refresh that keeps the reference to the cancelled task
StopResultKeepsTask(rt, ts) ==
  [refresh_task |-> rt,
   tasks |-> [ u \in DOMAIN ts |-> IF u = rt /\ ts[u] \in Alive
                                   THEN "cancelling" ELSE ts[u] ]]

\* _stop_auto_refresh on the held task rt and the tasks ts: when a task is
\* held it is cancelled and the reference is set to None
StopResult(rt, ts) ==
  [refresh_task |-> 0,
   tasks |-> [ u \in DOMAIN ts |-> IF u = rt /\ ts[u] \in Alive
                                   THEN "cancelling" ELSE ts[u] ]]

\* _stop_auto_refresh: cancel the held task, if any
StoppedTasks == StopResult(refresh_task, tasks).tasks

\* on_mount: start the auto-refresh task, then the initial refresh_status
OnMount ==
  /\ phase = "constructed"
  /\ phase' = "mounted"
  /\ tasks' = StartedTasks(1)
  /\ refresh_task' = 1
  /\ \E h \in Heads :
       /\ BeginRefresh(<< "mount", 0 >>, h)
       /\ unhandled' = (unhandled \/ h.outcome = "raised")
  /\ UNCHANGED << table, cli, direct, viewer, executed, looked_up, command_executor, scr, inv, nrefresh >>

\* _start_auto_refresh called again on the mounted app
StartAutoRefresh ==
  /\ phase = "mounted" /\ LoopFree
  /\ \E t \in Tasks :
       /\ tasks[t] = "unborn"
       /\ \A u \in Tasks : u < t => tasks[u] # "unborn"
       /\ tasks' = StartedTasks(t)
       /\ refresh_task' = t
  /\ UNCHANGED << table, cli, direct, viewer, executed, looked_up,
                  phase, command_executor, client, container_statuses,
                  last_refresh, connection_status, scr, inv, inflight,
                  nrefresh, call, unhandled >>

\* _stop_auto_refresh called on the mounted app
StopAutoRefresh ==
  /\ phase = "mounted" /\ LoopFree
  /\ tasks' = StoppedTasks
  /\ refresh_task' = StopResult(refresh_task, tasks).refresh_task
  /\ UNCHANGED << table, cli, direct, viewer, executed, looked_up,
                  phase, command_executor, client, container_statuses,
                  last_refresh, connection_status, scr, inv, inflight,
                  nrefresh, call, unhandled >>

\* on_unmount that closes the Docker client and leaves the task alone
OnUnmountKeepsTask ==
  /\ phase = "mounted" /\ LoopFree
  /\ phase' = "unmounted"
  /\ client' = FALSE
  /\ UNCHANGED << table, cli, direct, viewer, executed, looked_up,
                  command_executor, container_statuses, last_refresh,
                  connection_status, refresh_task, tasks, scr, inv, inflight,
                  nrefresh, call, unhandled >>

\* on_unmount: stop the auto-refresh task and close the Docker client
OnUnmount ==
  /\ phase = "mounted" /\ LoopFree
  /\ phase' = "unmounted"
  /\ tasks' = StoppedTasks
  /\ refresh_task' = StopResult(refresh_task, tasks).refresh_task
  /\ client' = FALSE
  /\ UNCHANGED << table, cli, direct, viewer, executed, looked_up,
                  command_executor, container_statuses, last_refresh,
                  connection_status, scr, inv, inflight, nrefresh, call,
                  unhandled >>

\* _auto_refresh_loop that calls refresh_status before its first sleep
LoopBeginRefreshes(t) ==
  /\ LoopFree
  /\ tasks[t] = "created"
  /\ \E h \in Heads :
       /\ BeginRefresh(<< "loop", t >>, h)
       /\ tasks' = [tasks EXCEPT ![t] = AutoRefreshLoopCatch(h.outcome).task]
  /\ UNCHANGED << table, cli, direct, viewer, executed, looked_up,
                  phase, command_executor, refresh_task, scr, inv, nrefresh,
                  unhandled >>

\* _auto_refresh_loop is resumed for the first time: it enters while True
\* and the try, and suspends in asyncio.sleep(self.refresh_interval)
LoopBegin(t) ==
  /\ LoopFree
  /\ tasks[t] = "created"
  /\ tasks' = [tasks EXCEPT ![t] = "sleeping"]
  /\ UNCHANGED << table, cli, direct, viewer, executed, looked_up,
                  phase, command_executor, client, container_statuses,
                  last_refresh, connection_status, refresh_task, scr, inv,
                  inflight, nrefresh, call, unhandled >>

\* _auto_refresh_loop: the sleep is over, refresh_status runs; an exception
\* is reported and the loop sleeps again
Tick(t) ==
  /\ LoopFree
  /\ tasks[t] = "sleeping"
  /\ << "loop", t >> \notin inflight
  /\ nrefresh < MaxRefresh
  /\ nrefresh' = nrefresh + 1
  /\ \E h \in Heads :
       /\ BeginRefresh(<< "loop", t >>, h)
       /\ tasks' = [tasks EXCEPT ![t] = AutoRefreshLoopCatch(h.outcome).task]
  /\ UNCHANGED << table, cli, direct, viewer, executed, looked_up,
                  phase, command_executor, refresh_task, scr, inv,
                  unhandled >>

\* _auto_refresh_loop without the except clause for CancelledError: the
\* cancellation ends the task with an exception
LoopExitRaises(t) ==
  /\ LoopFree
  /\ tasks[t] = "cancelling"
  /\ tasks' = [tasks EXCEPT ![t] = "done"]
  /\ unhandled' = TRUE
  /\ UNCHANGED << table, cli, direct, viewer, executed, looked_up,
                  phase, command_executor, client, container_statuses,
                  last_refresh, connection_status, refresh_task, scr, inv,
                  inflight, nrefresh, call >>

\* _auto_refresh_loop: CancelledError arrives in the sleep and the loop
\* breaks; in a task cancelled before its first step it arrives before the
\* first statement and ends the task as cancelled
LoopExit(t) ==
  /\ LoopFree
  /\ tasks[t] = "cancelling"
  /\ tasks' = [tasks EXCEPT ![t] = "done"]
  /\ UNCHANGED << table, cli, direct, viewer, executed, looked_up,
                  phase, command_executor, client, container_statuses,
                  last_refresh, connection_status, refresh_task, scr, inv,
                  inflight, nrefresh, call, unhandled >>

\* DockerTUIApp.action_refresh (key r on the main screen)
ActionRefresh ==
  /\ phase = "mounted" /\ LoopFree
  /\ << "manual", 0 >> \notin inflight
  /\ nrefresh < MaxRefresh
  /\ nrefresh' = nrefresh + 1
  /\ \E h \in Heads :
       /\ BeginRefresh(<< "manual", 0 >>, h)
       /\ unhandled' = (unhandled \/ h.outcome = "raised")
  /\ UNCHANGED << table, cli, direct, viewer, executed, looked_up,
                  phase, command_executor, refresh_task, tasks, scr, inv >>

\* refresh_status returns to on_mount, action_refresh or the loop
RefreshReturn(cl) ==
  /\ Settled
  /\ cl[1] \in { "mount", "manual", "loop" }
  /\ \E o \in Oracles : EndRefresh(cl, o)
  /\ UNCHANGED << table, cli, direct, viewer, executed, looked_up,
                  phase, command_executor, refresh_task, tasks, scr, inv,
                  nrefresh, unhandled >>

\* DockerTUIApp.action_services: push a ServiceListScreen that holds the
\* dict the app holds now
ActionServices ==
  /\ phase = "mounted" /\ LoopFree
  /\ ~scr.open
  /\ scr' = [open |-> TRUE, container_statuses |-> container_statuses]
  /\ UNCHANGED << table, cli, direct, viewer, executed, looked_up,
                  phase, command_executor, client, container_statuses,
                  last_refresh, connection_status, refresh_task, tasks, inv,
                  inflight, nrefresh, call, unhandled >>

\* ServiceListScreen.action_refresh (key r or the refresh button)
ScreenRefresh ==
  /\ phase = "mounted" /\ LoopFree
  /\ scr.open
  /\ << "screen", 0 >> \notin inflight
  /\ nrefresh < MaxRefresh
  /\ nrefresh' = nrefresh + 1
  /\ \E h \in Heads :
       /\ BeginRefresh(<< "screen", 0 >>, h)
       /\ unhandled' = (unhandled \/ h.outcome = "raised")
       /\ scr' = IF h.outcome = "abandoned"
                 THEN [scr EXCEPT !.container_statuses = container_statuses]
                 ELSE scr
  /\ UNCHANGED << table, cli, direct, viewer, executed, looked_up,
                  phase, command_executor, refresh_task, tasks, inv >>

\* ServiceListScreen.action_refresh after refresh_status returned: take the
\* app's dict
ScreenRefreshReturn ==
  /\ Settled
  /\ \E o \in Oracles : EndRefresh(<< "screen", 0 >>, o)
  /\ scr' = [scr EXCEPT !.container_statuses = container_statuses']
  /\ UNCHANGED << table, cli, direct, viewer, executed, looked_up,
                  phase, command_executor, refresh_task, tasks, inv,
                  nrefresh, unhandled >>

\* -------------------------------------------------------- Command Delegate
\* what subprocess.run does: the process exits with a code, or run raises
ProcOutcomes ==
  { [exc |-> "none", returncode |-> 0],
    [exc |-> "none", returncode |-> 2],
    [exc |-> "TimeoutExpired", returncode |-> 0],
    [exc |-> "FileNotFoundError", returncode |-> 0],
    [exc |-> "Exception", returncode |-> 0] }

\* _execute_command with a single except clause for every exception
ExecuteCommandOneClause(p) ==
  IF p.exc = "none"
  THEN [success |-> (p.returncode = 0), return_code |-> p.returncode,
        stderr |-> "process"]
  ELSE [success |-> FALSE, return_code |-> -1, stderr |-> "Unexpected error"]

\* CommandExecutor._execute_command
ExecuteCommand(p) ==
  IF p.exc = "none"
  THEN [success |-> (p.returncode = 0), return_code |-> p.returncode,
        stderr |-> "process"]
  ELSE IF p.exc = "TimeoutExpired"
  THEN [success |-> FALSE, return_code |-> -1, stderr |-> "Command timed out"]
  ELSE IF p.exc = "FileNotFoundError"
  THEN [success |-> FALSE, return_code |-> -1, stderr |-> "Command not found"]
  ELSE [success |-> FALSE, return_code |-> -1, stderr |-> "Unexpected error"]

\* execute_script that reports a missing script with return code 0
ExecuteScriptMissingZero(exists, p) ==
  IF ~exists
  THEN [success |-> FALSE, return_code |-> 0, stderr |-> "Script not found"]
  ELSE ExecuteCommand(p)

\* CommandExecutor.execute_script: a missing script starts no process
ExecuteScript(exists, p) ==
  IF ~exists
  THEN [success |-> FALSE, return_code |-> -1, stderr |-> "Script not found"]
  ELSE ExecuteCommand(p)

\* a caller runs _execute_command on the executor, subprocess.run does p
ExecuteCommandCall(p) ==
  /\ Len(executed) < MaxCalls
  /\ executed' = Append(executed, [exc |-> p.exc, returncode |-> p.returncode,
                                    result |-> ExecuteCommand(p)])
  /\ UNCHANGED << table, cli, direct, viewer,
                  phase, command_executor, client, container_statuses,
                  last_refresh, connection_status, refresh_task, tasks, scr,
                  inv, inflight, nrefresh, call, unhandled, looked_up >>

\* the Command Delegate on its own
NextExecutor == \E p \in ProcOutcomes : ExecuteCommandCall(p)

SpecExecutor == Init /\ [][NextExecutor]_vars

\* the container names of direct lookups
LookupNames == { "running", "stopped", "missing" }

\* the lists of at most n names
NameLists(n) == UNION { [ 1 .. m -> LookupNames ] : m \in 0 .. n }

\* a caller runs get_multiple_container_status on the client for the list
\* names, containers.get answers got[n] for the name n
GetMultipleCall(names, got) ==
  /\ looked_up = NoLookup
  /\ looked_up' = [names |-> names, got |-> got, client |-> client,
                   statuses |-> GetMultipleContainerStatus(names, client, got)]
  /\ UNCHANGED << table, cli, direct, viewer,
                  phase, command_executor, client, container_statuses,
                  last_refresh, connection_status, refresh_task, tasks, scr,
                  inv, inflight, nrefresh, call, unhandled, executed >>

\* the Status Source on its own
NextLookup ==
  \E names \in NameLists(MaxNames) :
    \E got \in [ Range(names) -> GetOutcomes ] : GetMultipleCall(names, got)

SpecLookup == Init /\ [][NextLookup]_vars

\* the result of execute_make_command when the app holds no executor
NoExecutorResult ==
  [success |-> FALSE, return_code |-> -1,
   stderr |-> "Command executor not available"]

\* ------------------------------------------------- Status Source, directly
\* DockerClient(): __init__ sets _client to None and calls _connect; an
\* exception _connect does not catch leaves the constructor and no object
\* is made
DockerClientInit(from_env, ping) ==
  LET r == Connect(FALSE, from_env, ping)
  IN IF r.ret = "raise"
     THEN [state |-> "raised", ctor |-> << from_env, ping >>,
           client |-> FALSE, calls |-> << >>]
     ELSE [state |-> "made", ctor |-> << from_env, ping >>,
           client |-> r.client, calls |-> << >>]

\* a caller constructs a DockerClient; docker.from_env and ping do as given
NewDockerClient(from_env, ping) ==
  /\ direct.state = "none"
  /\ direct' = DockerClientInit(from_env, ping)
  /\ UNCHANGED << table, cli, viewer, executed, looked_up,
                  phase, command_executor, client, container_statuses,
                  last_refresh, connection_status, refresh_task, tasks, scr,
                  inv, inflight, nrefresh, call, unhandled >>

\* the caller runs reconnect() on the client it constructed
Reconnect(from_env, ping) ==
  LET r == Connect(direct.client, from_env, ping)
  IN /\ direct.state = "made"
     /\ Len(direct.calls) < MaxCalls
     /\ direct' = [direct EXCEPT
          !.client = r.client,
          !.calls = Append(@, [from_env |-> from_env, ping |-> ping,
                               ret |-> r.ret, client |-> r.client])]
     /\ UNCHANGED << table, cli, viewer, executed, looked_up,
                     phase, command_executor, client, container_statuses,
                     last_refresh, connection_status, refresh_task, tasks,
                     scr, inv, inflight, nrefresh, call, unhandled >>

\* the Status Source client of a caller of its own
NextClient ==
  \/ \E from_env \in CallOutcomes, ping \in CallOutcomes :
       NewDockerClient(from_env, ping)
  \/ \E from_env \in CallOutcomes, ping \in CallOutcomes :
       Reconnect(from_env, ping)

SpecClient == Init /\ [][NextClient]_vars


\* ------------------------------------------------------------ command line
\* the bounds of --refresh-interval in main()
MinInterval == 1

MaxInterval == 300

\* how far below and above the bounds the explored intervals reach
IntervalMargin == 2

Intervals == (MinInterval - IntervalMargin) .. (MaxInterval + IntervalMargin)

\* the Docker check of main(): skipped by --no-docker-check, Docker is
\* available, it is not and the user continues or aborts, or the check raises
DockerChecks == { "skipped", "available", "continue", "abort", "error" }

\* DockerTUIApp() raises, or app.run() returns, is interrupted or raises
AppRuns == { "ctor_raises", "returns", "interrupt", "raises" }

\* main() with bounds that are themselves rejected
MainRunExclusive(refresh_interval, prereqs_ok, repo_found, docker, run) ==
  LET stop(stage, checked) ==
        [exit |-> 1, stage |-> stage, prereqs_checked |-> checked,
         constructed |-> FALSE, applied |-> {}]
  IN IF refresh_interval <= MinInterval \/ refresh_interval >= MaxInterval
     THEN stop("validation", FALSE)
     ELSE IF ~prereqs_ok THEN stop("prerequisites", TRUE)
     ELSE IF ~repo_found THEN stop("repository", TRUE)
     ELSE IF docker = "abort" THEN stop("docker", TRUE)
     ELSE IF run = "ctor_raises" THEN stop("app", TRUE)
     ELSE [exit |-> IF run = "raises" THEN 1 ELSE 0, stage |-> "app",
           prereqs_checked |-> TRUE, constructed |-> TRUE,
           applied |-> { refresh_interval }]

\* main(): the interval is validated first, then the prerequisites, the
\* repository root and Docker; then the app is constructed, given the
\* interval and run. exit is the exit code of the process
MainRun(refresh_interval, prereqs_ok, repo_found, docker, run) ==
  LET stop(stage, checked) ==
        [exit |-> 1, stage |-> stage, prereqs_checked |-> checked,
         constructed |-> FALSE, applied |-> {}]
  IN IF refresh_interval < MinInterval \/ refresh_interval > MaxInterval
     THEN stop("validation", FALSE)
     ELSE IF ~prereqs_ok THEN stop("prerequisites", TRUE)
     ELSE IF ~repo_found THEN stop("repository", TRUE)
     ELSE IF docker = "abort" THEN stop("docker", TRUE)
     ELSE IF run = "ctor_raises" THEN stop("app", TRUE)
     ELSE [exit |-> IF run = "raises" THEN 1 ELSE 0, stage |-> "app",
           prereqs_checked |-> TRUE, constructed |-> TRUE,
           applied |-> { refresh_interval }]

\* the program is started with --refresh-interval refresh_interval
MainCall(refresh_interval, prereqs_ok, repo_found, docker, run) ==
  LET r == MainRun(refresh_interval, prereqs_ok, repo_found, docker, run)
  IN /\ cli = NoMain
     /\ cli' = [ran |-> TRUE, interval |-> refresh_interval,
                prereqs_ok |-> prereqs_ok, repo_found |-> repo_found,
                docker |-> docker, run |-> run, exit |-> r.exit,
                stage |-> r.stage, prereqs_checked |-> r.prereqs_checked,
                constructed |-> r.constructed, applied |-> r.applied]
     /\ UNCHANGED << table, direct, viewer, executed, looked_up,
                     phase, command_executor, client, container_statuses,
                     last_refresh, connection_status, refresh_task, tasks,
                     scr, inv, inflight, nrefresh, call, unhandled >>

\* the command line on its own: the process runs main() once
NextCli ==
  /\ ~cli.ran
  /\ \E refresh_interval \in Intervals, prereqs_ok \in BOOLEAN,
        repo_found \in BOOLEAN, docker \in DockerChecks, run \in AppRuns :
       MainCall(refresh_interval, prereqs_ok, repo_found, docker, run)

SpecCli == Init /\ [][NextCli]_vars


\* ---------------------------------------------------------------- log viewer
\* the bounds and the step of tail_lines in the two tail actions
TailMax == 1000

TailMin == 10

TailStep == 50

\* the follow loop asks for the last 20 lines
FollowTail == 20

\* min and max of two numbers
Min(a, b) == IF a < b THEN a ELSE b

Max(a, b) == IF a > b THEN a ELSE b

\* what is_connected and get_container_logs give refresh_logs: no
\* connection, a list that starts with an "ERROR:" line, no line at all, or
\* as many lines as were asked for
LogSources == { "disconnected", "error", "empty", "full" }

\* what they give one iteration of the follow loop; is_connected may also
\* raise
FollowSources == LogSources \cup { "raise" }

\* a handler or a loop iteration of the viewer begins: v with the record of
\* the last one reset
Act(v, name) == [v EXCEPT !.last = name, !.refreshed = FALSE, !.warned = FALSE]

\* LogViewerScreen.refresh_logs: logs_content is replaced unless the client
\* is disconnected or answers with an error
RefreshLogs(v, src) ==
  IF src \in { "disconnected", "error" } THEN [v EXCEPT !.refreshed = TRUE]
  ELSE [v EXCEPT !.refreshed = TRUE,
                 !.len = IF src = "empty" THEN 1 ELSE v.tail_lines]

\* action_decrease_tail without the max(10, ...)
DecreaseTailUnclamped(v, src) ==
  IF v.tail_lines <= TailMin
  THEN [Act(v, "decrease") EXCEPT !.warned = TRUE]
  ELSE RefreshLogs([Act(v, "decrease") EXCEPT
                      !.tail_lines = v.tail_lines - TailStep], src)

\* LogViewerScreen.action_increase_tail: at the maximum a warning and
\* nothing else; otherwise 50 more lines, capped, and refresh_logs
IncreaseTail(v, src) ==
  IF v.tail_lines >= TailMax
  THEN [Act(v, "increase") EXCEPT !.warned = TRUE]
  ELSE RefreshLogs([Act(v, "increase") EXCEPT
                      !.tail_lines = Min(TailMax, v.tail_lines + TailStep)],
                   src)

\* LogViewerScreen.action_decrease_tail: at the minimum a warning and
\* nothing else; otherwise 50 lines fewer, floored, and refresh_logs
DecreaseTail(v, src) ==
  IF v.tail_lines <= TailMin
  THEN [Act(v, "decrease") EXCEPT !.warned = TRUE]
  ELSE RefreshLogs([Act(v, "decrease") EXCEPT
                      !.tail_lines = Max(TailMin, v.tail_lines - TailStep)],
                   src)

\* LogViewerScreen._start_following: nothing when a task is held; otherwise
\* the flag is set and the task created, and the flag is taken back when
\* create_task fails
StartFollowing(v, created) ==
  IF v.follow_task # "none" THEN v
  ELSE IF created
  THEN [v EXCEPT !.following = TRUE, !.follow_task = "alive",
                 !.live = v.live + 1]
  ELSE [v EXCEPT !.following = FALSE]

\* _stop_following that leaves the following flag as it is
StopFollowingKeepsFlag(v) ==
  IF v.follow_task # "none"
  THEN [v EXCEPT !.follow_task = "none",
                 !.live = IF v.follow_task = "alive" THEN v.live - 1
                          ELSE v.live]
  ELSE v

\* LogViewerScreen._stop_following: the held task is cancelled and the
\* handle dropped, the flag is reset; a cancelled task never iterates again
StopFollowing(v) ==
  IF v.follow_task # "none"
  THEN [v EXCEPT !.follow_task = "none", !.following = FALSE,
                 !.live = IF v.follow_task = "alive" THEN v.live - 1
                          ELSE v.live]
  ELSE [v EXCEPT !.following = FALSE]

\* one iteration of _follow_logs after its sleep: the task ends when the
\* flag is off or an exception is caught; new lines are appended and
\* logs_content is cut back to twice tail_lines
FollowIteration(v, src) ==
  IF ~v.following \/ src = "raise"
  THEN [v EXCEPT !.live = v.live - 1,
                 !.follow_task = IF v.follow_task = "alive" THEN "ended"
                                 ELSE v.follow_task]
  ELSE IF src = "full"
  THEN [v EXCEPT !.len = Min(v.len + FollowTail, 2 * v.tail_lines)]
  ELSE v

\* LogViewerScreen.on_mount
ViewerMount(src) ==
  /\ viewer.stage = "constructed"
  /\ viewer' = RefreshLogs([Act(viewer, "mount") EXCEPT !.stage = "mounted"],
                           src)
  /\ UNCHANGED << table, cli, direct, executed, looked_up,
                  phase, command_executor, client, container_statuses,
                  last_refresh, connection_status, refresh_task, tasks, scr,
                  inv, inflight, nrefresh, call, unhandled >>

\* the user presses plus on the log viewer
ActionIncreaseTail(src) ==
  /\ viewer.stage = "mounted"
  /\ viewer' = IncreaseTail(viewer, src)
  /\ UNCHANGED << table, cli, direct, executed, looked_up,
                  phase, command_executor, client, container_statuses,
                  last_refresh, connection_status, refresh_task, tasks, scr,
                  inv, inflight, nrefresh, call, unhandled >>

\* the user presses minus on the log viewer
ActionDecreaseTail(src) ==
  /\ viewer.stage = "mounted"
  /\ viewer' = DecreaseTail(viewer, src)
  /\ UNCHANGED << table, cli, direct, executed, looked_up,
                  phase, command_executor, client, container_statuses,
                  last_refresh, connection_status, refresh_task, tasks, scr,
                  inv, inflight, nrefresh, call, unhandled >>

\* LogViewerScreen.action_refresh (key r or the refresh button)
ActionRefreshLogs(src) ==
  /\ viewer.stage = "mounted"
  /\ viewer' = RefreshLogs(Act(viewer, "refresh"), src)
  /\ UNCHANGED << table, cli, direct, executed, looked_up,
                  phase, command_executor, client, container_statuses,
                  last_refresh, connection_status, refresh_task, tasks, scr,
                  inv, inflight, nrefresh, call, unhandled >>

\* LogViewerScreen.action_toggle_follow
ActionToggleFollow(created) ==
  /\ viewer.stage = "mounted"
  /\ viewer' = IF viewer.following THEN StopFollowing(Act(viewer, "toggle"))
               ELSE StartFollowing(Act(viewer, "toggle"), created)
  /\ UNCHANGED << table, cli, direct, executed, looked_up,
                  phase, command_executor, client, container_statuses,
                  last_refresh, connection_status, refresh_task, tasks, scr,
                  inv, inflight, nrefresh, call, unhandled >>

\* LogViewerScreen.action_clear: following is stopped, logs_content emptied
ActionClear ==
  /\ viewer.stage = "mounted"
  /\ viewer' = [(IF viewer.following THEN StopFollowing(Act(viewer, "clear"))
                 ELSE Act(viewer, "clear")) EXCEPT !.len = 0]
  /\ UNCHANGED << table, cli, direct, executed, looked_up,
                  phase, command_executor, client, container_statuses,
                  last_refresh, connection_status, refresh_task, tasks, scr,
                  inv, inflight, nrefresh, call, unhandled >>

\* LogViewerScreen.action_back: following is stopped, the screen dismissed
ViewerBack ==
  /\ viewer.stage = "mounted"
  /\ viewer' = [StopFollowing(Act(viewer, "back")) EXCEPT
                  !.stage = "dismissed"]
  /\ UNCHANGED << table, cli, direct, executed, looked_up,
                  phase, command_executor, client, container_statuses,
                  last_refresh, connection_status, refresh_task, tasks, scr,
                  inv, inflight, nrefresh, call, unhandled >>

\* LogViewerScreen.on_unmount, after a dismissal or when the app ends
ViewerUnmount ==
  /\ viewer.stage \in { "mounted", "dismissed" }
  /\ viewer' = [StopFollowing(Act(viewer, "unmount")) EXCEPT
                  !.stage = "unmounted"]
  /\ UNCHANGED << table, cli, direct, executed, looked_up,
                  phase, command_executor, client, container_statuses,
                  last_refresh, connection_status, refresh_task, tasks, scr,
                  inv, inflight, nrefresh, call, unhandled >>

\* a follow task that was not cancelled wakes from its sleep
FollowTick(src) ==
  /\ viewer.live > 0
  /\ viewer' = FollowIteration(Act(viewer, "follow"), src)
  /\ UNCHANGED << table, cli, direct, executed, looked_up,
                  phase, command_executor, client, container_statuses,
                  last_refresh, connection_status, refresh_task, tasks, scr,
                  inv, inflight, nrefresh, call, unhandled >>

\* the log viewer on its own
NextLogViewer ==
  \/ \E src \in LogSources : ViewerMount(src)
  \/ \E src \in LogSources : ActionIncreaseTail(src)
  \/ \E src \in LogSources : ActionDecreaseTail(src)
  \/ \E src \in LogSources : ActionRefreshLogs(src)
  \/ \E created \in BOOLEAN : ActionToggleFollow(created)
  \/ ActionClear
  \/ ViewerBack
  \/ ViewerUnmount
  \/ \E src \in FollowSources : FollowTick(src)

SpecLogViewer == Init /\ [][NextLogViewer]_vars


\* ------------------------------------------------------------ services table
\* the rows that _setup_table adds for the services from position k on: for
\* a grouped service the group row and one row per container, for any other
\* service one row; each row with the service it belongs to
RECURSIVE RowsFrom(_)
RowsFrom(k) ==
  IF k > Len(SERVICES) THEN << >>
  ELSE LET service == SERVICES[k]
           own == IF Len(service.containers) > 0
                  THEN << [owner |-> service.id, key |-> "group"] >>
                       \o [ c \in DOMAIN service.containers |->
                             [owner |-> service.id,
                              key |-> service.containers[c]] ]
                  ELSE << [owner |-> service.id, key |-> service.id] >>
       IN own \o RowsFrom(k + 1)

\* the table of the screen; cursor_row r is TableRows[r + 1]
TableRows == RowsFrom(1)

CursorRows == 0 .. Len(TableRows) - 1

\* ServiceListScreen._get_selected_service: the service at the position of
\* the cursor in the list of services, the first service when there is none
GetSelectedService(cursor_row) ==
  IF 0 <= cursor_row /\ cursor_row < Len(SERVICES)
  THEN SERVICES[cursor_row + 1]
  ELSE SERVICES[1]

\* the keys and buttons that act on the selected service
TableActions == { "toggle", "logs", "details" }

\* the user moves the cursor: on_data_table_row_highlighted
RowHighlighted(r) ==
  /\ r # table.cursor_row
  /\ table' = [table EXCEPT
       !.cursor_row = r,
       !.selected = IF 0 <= r /\ r < Len(SERVICES) THEN SERVICES[r + 1].id
                    ELSE table.selected]
  /\ UNCHANGED << cli, direct, viewer, executed, looked_up,
                  phase, command_executor, client, container_statuses,
                  last_refresh, connection_status, refresh_task, tasks, scr,
                  inv, inflight, nrefresh, call, unhandled >>

\* action_service_action, action_view_logs or action_service_details: each
\* takes its service from _get_selected_service; logs and details are
\* refused for a grouped service
TableAction(a) ==
  LET service == GetSelectedService(table.cursor_row)
  IN /\ Len(table.picks) < MaxPicks
     /\ table' = [table EXCEPT !.picks = Append(table.picks,
          [row |-> table.cursor_row, action |-> a, target |-> service.id,
           refused |-> a # "toggle" /\ Len(service.containers) > 0])]
     /\ UNCHANGED << cli, direct, viewer, executed, looked_up,
                     phase, command_executor, client, container_statuses,
                     last_refresh, connection_status, refresh_task, tasks,
                     scr, inv, inflight, nrefresh, call, unhandled >>

\* the services table on its own
NextTable ==
  \/ \E r \in CursorRows : RowHighlighted(r)
  \/ \E a \in TableActions : TableAction(a)

SpecTable == Init /\ [][NextTable]_vars

\* ------------------------------------------------------- operations catalog
\* the operations dict handed to OperationsScreen: entries of
\* SYSTEM_OPERATIONS, and entries that declare a destructive make target,
\* nothing to run, or nothing at all
OPERATIONS ==
  [ k \in { "status", "backup", "restore", "Deep_CLEAN", "invalid", "empty" } |->
      CASE k = "status" -> [present |-> TRUE, command |-> "status", script |-> "none"]
        [] k = "backup" -> [present |-> TRUE, command |-> "none",
                            script |-> "./scripts/backup.sh"]
        [] k = "restore" -> [present |-> TRUE, command |-> "none",
                             script |-> "./scripts/restore.sh"]
        [] k = "Deep_CLEAN" -> [present |-> TRUE, command |-> "clean",
                                script |-> "none"]
        [] k = "invalid" -> [present |-> TRUE, command |-> "none", script |-> "none"]
        [] k = "empty" -> [present |-> FALSE, command |-> "none", script |-> "none"] ]

\* the characters of the operation keys
Chars(k) ==
  CASE k = "status" -> << "s", "t", "a", "t", "u", "s" >>
    [] k = "backup" -> << "b", "a", "c", "k", "u", "p" >>
    [] k = "restore" -> << "r", "e", "s", "t", "o", "r", "e" >>
    [] k = "Deep_CLEAN" -> << "D", "e", "e", "p", "_", "C", "L", "E", "A", "N" >>
    [] k = "invalid" -> << "i", "n", "v", "a", "l", "i", "d" >>
    [] k = "empty" -> << "e", "m", "p", "t", "y" >>

\* str.lower, on the characters the keys use
LowerChar(ch) ==
  CASE ch = "D" -> "d" [] ch = "C" -> "c" [] ch = "L" -> "l"
    [] ch = "E" -> "e" [] ch = "A" -> "a" [] ch = "N" -> "n"
    [] OTHER -> ch

Lower(w) == [ k \in DOMAIN w |-> LowerChar(w[k]) ]

\* the substring test `sub in w`
Contains(w, sub) ==
  \E k \in 0 .. (Len(w) - Len(sub)) :
    \A j \in 1 .. Len(sub) : w[k + j] = sub[j]

\* destructive_ops = ["clean", "restore"]
destructive_ops ==
  { << "c", "l", "e", "a", "n" >>, << "r", "e", "s", "t", "o", "r", "e" >> }

\* the destructive test without .lower()
IsDestructiveCaseSensitive(k) ==
  \E d \in destructive_ops : Contains(Chars(k), d)

\* any(dest in operation_key.lower() for dest in destructive_ops)
IsDestructive(k) == \E d \in destructive_ops : Contains(Lower(Chars(k)), d)

\* OperationsScreen._show_confirmation: no dialog is shown, the answer the
\* user would give is not asked for
ShowConfirmation(answer) == TRUE

\* -------------------------------------------------------- Command Dispatcher
\* user input is handled by the app's message pump, which awaits a key-bound
\* action to its end; a worker started by a button does not hold the pump
PumpFree == \A j \in Invs : inv[j].via = "key" => inv[j].pc \in Final

\* the coroutine object of an ended handler is discarded; of its thread
\* only whether it is still running matters from then on
Retire(i) ==
  /\ inv[i].pc \in Final
  /\ inv' = [inv EXCEPT ![i] =
       [IdleInv EXCEPT !.pc = "retired",
                       !.thread = IF inv[i].thread = "running"
                                  THEN "running" ELSE "idle"]]
  /\ UNCHANGED << table, cli, direct, viewer, executed, looked_up,
                  phase, command_executor, client, container_statuses,
                  last_refresh, connection_status, refresh_task, tasks, scr,
                  inflight, nrefresh, call, unhandled >>


\* invocation i is the next unused one
NextInv(i) ==
  /\ inv[i].pc = "unused"
  /\ \A j \in Invs : j < i => inv[j].pc # "unused"

\* ServiceListScreen.action_service_action: is the selected service running
IsRunning(service, statuses) ==
  IF Len(service.containers) > 0
  THEN \E k \in DOMAIN service.containers :
         /\ service.containers[k] \in DOMAIN statuses
         /\ statuses[service.containers[k]].status = "running"
  ELSE /\ service.container_name \in DOMAIN statuses
       /\ statuses[service.container_name].status = "running"

\* run_worker(..., exclusive=True): the workers of the screen that are still
\* waiting are cancelled; a command already handed to a thread keeps running
CancelWorkers(f) ==
  [ j \in Invs |->
      IF f[j].kind = "toggle" /\ f[j].via = "button"
         /\ f[j].pc \in { "awaiting", "delay_sleep" }
      THEN [f[j] EXCEPT !.pc = "cancelled"] ELSE f[j] ]

\* action_service_action up to its first suspension: pick the command, enter
\* execute_make_command, which returns at once without an executor and
\* otherwise hands the command to a thread
ToggleStart(i, via, s) ==
  LET service == SERVICES[s]
      command == IF IsRunning(service, scr.container_statuses)
                 THEN service.stop ELSE service.start
      base == IF via = "button" THEN CancelWorkers(inv) ELSE inv
      rec == [IdleInv EXCEPT !.kind = "toggle", !.via = via,
                             !.key = service.id, !.cmd = command]
  IN /\ phase = "mounted" /\ LoopFree /\ PumpFree
     /\ scr.open
     /\ NextInv(i)
     /\ inv' = [base EXCEPT ![i] =
          IF ~command_executor
          THEN [rec EXCEPT !.pc = "delay_sleep", !.result = NoExecutorResult,
                           !.log = << "result", "notify_command_failed" >>]
          ELSE [rec EXCEPT !.pc = "awaiting", !.thread = "running",
                           !.log = << "notify_executing", "delegate" >>]]
     /\ UNCHANGED << table, cli, direct, viewer, executed, looked_up,
                     phase, command_executor, client, container_statuses,
                     last_refresh, connection_status, refresh_task, tasks,
                     scr, inflight, nrefresh, call, unhandled >>

\* the call handed to asyncio.to_thread ends: the executor method returns
\* its CommandResult, or the call ends with an exception (the executor
\* object raises, the thread cannot be started), which the await re-raises
DelegateFinish(i) ==
  /\ Settled
  /\ inv[i].thread = "running"
  /\ \/ \E p \in ProcOutcomes, exists \in BOOLEAN :
          /\ (exists \/ (inv[i].kind = "operation"
                          /\ OPERATIONS[inv[i].key].command = "none"))
          /\ inv' = [inv EXCEPT ![i] =
               IF inv[i].pc = "retired" THEN [inv[i] EXCEPT !.thread = "idle"]
               ELSE [inv[i] EXCEPT !.thread = "finished",
                                   !.result = ExecuteScript(exists, p)]]
     \/ inv' = [inv EXCEPT ![i].thread =
                  IF inv[i].pc = "retired" THEN "idle" ELSE "raised"]
  /\ UNCHANGED << table, cli, direct, viewer, executed, looked_up,
                  phase, command_executor, client, container_statuses,
                  last_refresh, connection_status, refresh_task, tasks, scr,
                  inflight, nrefresh, call, unhandled >>

\* the await of asyncio.to_thread raises in execute_make_command or in
\* action_execute_operation: no except clause is around it, the exception
\* leaves the handler
DelegateRaise(i) ==
  /\ LoopFree
  /\ inv[i].pc = "awaiting" /\ inv[i].thread = "raised"
  /\ inv' = [inv EXCEPT ![i].pc = "crashed"]
  /\ unhandled' = TRUE
  /\ UNCHANGED << table, cli, direct, viewer, executed, looked_up,
                  phase, command_executor, client, container_statuses,
                  last_refresh, connection_status, refresh_task, tasks, scr,
                  inflight, nrefresh, call >>

\* what action_service_action does once execute_make_command has returned:
\* report a failure, then sleep in _delayed_refresh
AfterCommand(r) ==
  [r EXCEPT !.pc = "delay_sleep",
            !.log = IF r.result.success THEN Append(r.log, "result")
                    ELSE r.log \o << "result", "notify_command_failed" >>]

\* execute_make_command that refreshes before it reports the result
CommandResumeRefreshFirst(i) ==
  LET noted == [inv[i] EXCEPT !.log =
                  inv[i].log \o << "refresh", IF inv[i].result.success
                                              THEN "notify_success"
                                              ELSE "notify_failed" >>]
  IN /\ LoopFree
     /\ inv[i].kind = "toggle"
     /\ inv[i].pc = "awaiting" /\ inv[i].thread = "finished"
     /\ \E h \in Heads :
          /\ BeginRefresh(<< "post", i >>, h)
          /\ unhandled' = (unhandled \/ h.outcome = "raised")
          /\ inv' = [inv EXCEPT ![i] =
               IF h.outcome = "proceed"
               THEN [noted EXCEPT !.pc = "post_refresh"]
               ELSE IF h.outcome = "abandoned" THEN AfterCommand(noted)
               ELSE [noted EXCEPT !.pc = "crashed"]]
     /\ UNCHANGED << table, cli, direct, viewer, executed, looked_up,
                     phase, command_executor, refresh_task, tasks, scr,
                     nrefresh >>

\* execute_make_command after the thread has returned: the result
\* notification, then refresh_status
CommandResume(i) ==
  LET noted == [inv[i] EXCEPT !.log =
                  inv[i].log \o << IF inv[i].result.success
                                   THEN "notify_success"
                                   ELSE "notify_failed", "refresh" >>]
  IN /\ LoopFree
     /\ inv[i].kind = "toggle"
     /\ inv[i].pc = "awaiting" /\ inv[i].thread = "finished"
     /\ \E h \in Heads :
          /\ BeginRefresh(<< "post", i >>, h)
          /\ unhandled' = (unhandled \/ h.outcome = "raised")
          /\ inv' = [inv EXCEPT ![i] =
               IF h.outcome = "proceed"
               THEN [noted EXCEPT !.pc = "post_refresh"]
               ELSE IF h.outcome = "abandoned" THEN AfterCommand(noted)
               ELSE [noted EXCEPT !.pc = "crashed"]]
     /\ UNCHANGED << table, cli, direct, viewer, executed, looked_up,
                     phase, command_executor, refresh_task, tasks, scr,
                     nrefresh >>

\* the post-command refresh_status returns, execute_make_command returns
CommandReturn(i) ==
  /\ inv[i].pc = "post_refresh"
  /\ \E o \in Oracles : EndRefresh(<< "post", i >>, o)
  /\ inv' = [inv EXCEPT ![i] = AfterCommand(inv[i])]
  /\ UNCHANGED << table, cli, direct, viewer, executed, looked_up,
                  phase, command_executor, refresh_task, tasks, scr,
                  nrefresh, unhandled >>

\* _delayed_refresh after its sleep: ServiceListScreen.action_refresh
DelayedRefresh(i) ==
  LET noted == [inv[i] EXCEPT !.log = Append(inv[i].log, "refresh")]
  IN /\ LoopFree
     /\ inv[i].pc = "delay_sleep"
     /\ \E h \in Heads :
          /\ BeginRefresh(<< "delayed", i >>, h)
          /\ unhandled' = (unhandled \/ h.outcome = "raised")
          /\ inv' = [inv EXCEPT ![i] =
               IF h.outcome = "proceed"
               THEN [noted EXCEPT !.pc = "delayed_refresh"]
               ELSE IF h.outcome = "abandoned"
               THEN [noted EXCEPT !.pc = "done"]
               ELSE [noted EXCEPT !.pc = "crashed"]]
          /\ scr' = IF h.outcome = "abandoned"
                    THEN [scr EXCEPT !.container_statuses = container_statuses]
                    ELSE scr
     /\ UNCHANGED << table, cli, direct, viewer, executed, looked_up,
                     phase, command_executor, refresh_task, tasks, nrefresh >>

\* the delayed refresh returns: the screen takes the app's dict
DelayedReturn(i) ==
  /\ inv[i].pc = "delayed_refresh"
  /\ \E o \in Oracles : EndRefresh(<< "delayed", i >>, o)
  /\ scr' = [scr EXCEPT !.container_statuses = container_statuses']
  /\ inv' = [inv EXCEPT ![i].pc = "done"]
  /\ UNCHANGED << table, cli, direct, viewer, executed, looked_up,
                  phase, command_executor, refresh_task, tasks, nrefresh,
                  unhandled >>

\* action_execute_operation without the executor test
ExecuteOperationNoExecutorTest(rec, answer) ==
  LET k == rec.key
      op == OPERATIONS[k]
      asked == IsDestructive(k)
      l1 == IF asked THEN << "confirm" >> ELSE << >>
  IN IF ~op.present
     THEN [rec EXCEPT !.pc = "done", !.log = << "notify_invalid" >>]
     ELSE IF op.command # "none" \/ op.script # "none"
     THEN [rec EXCEPT !.pc = "awaiting", !.thread = "running",
                      !.cmd = IF op.command # "none" THEN op.command
                              ELSE op.script,
                      !.decline = (asked /\ ~answer),
                      !.log = l1 \o << "output", "notify_executing", "delegate" >>]
     ELSE [rec EXCEPT !.pc = "done", !.decline = (asked /\ ~answer),
                      !.log = l1 \o << "output", "notify_invalid" >>]

\* action_execute_operation that runs whatever is not a make target as a
\* script
ExecuteOperationElseScript(rec, answer) ==
  LET k == rec.key
      op == OPERATIONS[k]
      asked == IsDestructive(k)
      l1 == IF asked THEN << "confirm" >> ELSE << >>
  IN IF ~command_executor
     THEN [rec EXCEPT !.pc = "done", !.log = << "notify_no_executor" >>]
     ELSE IF ~op.present
     THEN [rec EXCEPT !.pc = "done", !.log = << "notify_invalid" >>]
     ELSE [rec EXCEPT !.pc = "awaiting", !.thread = "running",
                      !.cmd = IF op.command # "none" THEN op.command
                              ELSE op.script,
                      !.decline = (asked /\ ~answer),
                      !.log = l1 \o << "output", "notify_executing", "delegate" >>]

\* OperationsScreen.action_execute_operation up to its first suspension
ExecuteOperation(rec, answer) ==
  LET k == rec.key
      op == OPERATIONS[k]
      asked == IsDestructive(k)
      confirmed == ShowConfirmation(answer)
      l1 == IF asked THEN << "confirm" >> ELSE << >>
  IN IF ~command_executor
     THEN [rec EXCEPT !.pc = "done", !.log = << "notify_no_executor" >>]
     ELSE IF ~op.present
     THEN [rec EXCEPT !.pc = "done", !.log = << "notify_invalid" >>]
     ELSE IF asked /\ ~confirmed
     THEN [rec EXCEPT !.pc = "done", !.log = l1, !.decline = ~answer]
     ELSE IF op.command # "none"
     THEN [rec EXCEPT !.pc = "awaiting", !.thread = "running",
                      !.cmd = op.command, !.decline = (asked /\ ~answer),
                      !.log = l1 \o << "output", "notify_executing", "delegate" >>]
     ELSE IF op.script # "none"
     THEN [rec EXCEPT !.pc = "awaiting", !.thread = "running",
                      !.cmd = op.script, !.decline = (asked /\ ~answer),
                      !.log = l1 \o << "output", "notify_executing", "delegate" >>]
     ELSE [rec EXCEPT !.pc = "done", !.decline = (asked /\ ~answer),
                      !.log = l1 \o << "output", "notify_invalid" >>]

\* the user runs the selected operation with the key binding or the button;
\* answer is what the user would reply to a confirmation dialog
OperationStart(i, via, k, answer) ==
  /\ phase = "mounted" /\ LoopFree /\ PumpFree
  /\ NextInv(i)
  /\ (~IsDestructive(k) => answer)
  /\ inv' = [inv EXCEPT ![i] =
       ExecuteOperation([IdleInv EXCEPT !.kind = "operation", !.via = via,
                                        !.key = k], answer)]
  /\ UNCHANGED << table, cli, direct, viewer, executed, looked_up,
                  phase, command_executor, client, container_statuses,
                  last_refresh, connection_status, refresh_task, tasks, scr,
                  inflight, nrefresh, call, unhandled >>

\* action_execute_operation that runs a failed command once more
OperationResumeRetry(i) ==
  /\ LoopFree
  /\ inv[i].kind = "operation"
  /\ inv[i].pc = "awaiting" /\ inv[i].thread = "finished"
  /\ inv' = [inv EXCEPT ![i] =
       IF inv[i].result.success
       THEN [inv[i] EXCEPT !.pc = "done",
                           !.log = inv[i].log \o << "display", "notify_success" >>]
       ELSE [inv[i] EXCEPT !.thread = "running",
                           !.log = Append(inv[i].log, "delegate")]]
  /\ UNCHANGED << table, cli, direct, viewer, executed, looked_up,
                  phase, command_executor, client, container_statuses,
                  last_refresh, connection_status, refresh_task, tasks, scr,
                  inflight, nrefresh, call, unhandled >>

\* action_execute_operation after the thread has returned: _display_result
OperationResume(i) ==
  /\ LoopFree
  /\ inv[i].kind = "operation"
  /\ inv[i].pc = "awaiting" /\ inv[i].thread = "finished"
  /\ inv' = [inv EXCEPT ![i].pc = "done",
                        ![i].log = inv[i].log \o
                          << "display", IF inv[i].result.success
                                        THEN "notify_success"
                                        ELSE "notify_failed" >>]
  /\ UNCHANGED << table, cli, direct, viewer, executed, looked_up,
                  phase, command_executor, client, container_statuses,
                  last_refresh, connection_status, refresh_task, tasks, scr,
                  inflight, nrefresh, call, unhandled >>

Vias == { "key", "button" }

Callers == { << "mount", 0 >>, << "manual", 0 >> } \cup
           { << "loop", t >> : t \in Tasks }

\* the Refresh Coordinator on its own: mount, the periodic loop, manual
\* refreshes, teardown
NextRefresh ==
  \/ OnMount
  \/ StartAutoRefresh
  \/ StopAutoRefresh
  \/ OnUnmount
  \/ \E t \in Tasks : LoopBegin(t)
  \/ \E t \in Tasks : Tick(t)
  \/ \E t \in Tasks : LoopExit(t)
  \/ ActionRefresh
  \/ \E cl \in Callers : RefreshReturn(cl)
  \/ ActionServices
  \/ ScreenRefresh
  \/ ScreenRefreshReturn

SpecRefresh == Init /\ [][NextRefresh]_vars

\* the Refresh Coordinator on an event loop that keeps running: a refresh
\* that has begun returns, and a cancelled task is resumed with its
\* CancelledError
SpecLoopFair ==
  /\ SpecRefresh
  /\ WF_vars(\E cl \in Callers : RefreshReturn(cl))
  /\ WF_vars(ScreenRefreshReturn)
  /\ WF_vars(\E t \in Tasks : LoopExit(t))

\* the Command Dispatcher: service toggles and system operations, with the
\* refreshes they trigger
NextDispatch ==
  \/ OnMount
  \/ RefreshReturn(<< "mount", 0 >>)
  \/ ActionServices
  \/ \E i \in Invs, via \in Vias, s \in DOMAIN SERVICES : ToggleStart(i, via, s)
  \/ \E i \in Invs : DelegateFinish(i)
  \/ \E i \in Invs : DelegateRaise(i)
  \/ \E i \in Invs : CommandResume(i)
  \/ \E i \in Invs : CommandReturn(i)
  \/ \E i \in Invs : DelayedRefresh(i)
  \/ \E i \in Invs : DelayedReturn(i)
  \/ \E i \in Invs, via \in Vias, k \in DOMAIN OPERATIONS, answer \in BOOLEAN :
       OperationStart(i, via, k, answer)
  \/ \E i \in Invs : OperationResume(i)
  \/ \E i \in Invs : Retire(i)

SpecDispatch == Init /\ [][NextDispatch]_vars

\* the service whose toggle is followed among the callers of refresh_status:
\* redis; the refreshes of a toggle do not depend on the service
ToggledServices == { k \in DOMAIN SERVICES : SERVICES[k].id = "redis" }

\* every caller of refresh_status: the periodic loop, the manual refresh
\* actions, the post-command refresh and the service-list delayed refresh
NextSerial ==
  \/ OnMount
  \/ \E t \in Tasks : LoopBegin(t)
  \/ \E t \in Tasks : Tick(t)
  \/ ActionRefresh
  \/ \E cl \in Callers : RefreshReturn(cl)
  \/ ActionServices
  \/ ScreenRefresh
  \/ ScreenRefreshReturn
  \/ \E i \in Invs, via \in Vias, s \in ToggledServices : ToggleStart(i, via, s)
  \/ \E i \in Invs : DelegateFinish(i)
  \/ \E i \in Invs : DelegateRaise(i)
  \/ \E i \in Invs : CommandResume(i)
  \/ \E i \in Invs : CommandReturn(i)
  \/ \E i \in Invs : DelayedRefresh(i)
  \/ \E i \in Invs : DelayedReturn(i)
  \/ \E i \in Invs : Retire(i)

SpecSerial == Init /\ [][NextSerial]_vars

\* the teardown of the app with commands of the service list under way: a
\* started command runs on in its thread and its handler resumes when the
\* event loop next runs it
NextTeardown ==
  \/ OnMount
  \/ RefreshReturn(<< "mount", 0 >>)
  \/ ActionServices
  \/ \E i \in Invs, via \in Vias, s \in ToggledServices : ToggleStart(i, via, s)
  \/ \E i \in Invs : DelegateFinish(i)
  \/ \E i \in Invs : DelegateRaise(i)
  \/ \E i \in Invs : CommandResume(i)
  \/ \E i \in Invs : CommandReturn(i)
  \/ \E i \in Invs : DelayedRefresh(i)
  \/ \E i \in Invs : DelayedReturn(i)
  \/ \E i \in Invs : Retire(i)
  \/ OnUnmount

SpecTeardown == Init /\ [][NextTeardown]_vars

\* the whole application
Next == NextRefresh \/ NextDispatch

Spec == Init /\ [][Next]_vars

\* ------------------------------------------------------------------ claims
\* a step in which a refresh_status call begins
RefreshBegins == call'.seq # call.seq

\* the snapshots a completed poll can produce
FreshSnapshots ==
  { GetMultipleContainerStatus(ContainerNames, TRUE, o) : o \in Oracles }

\* C1: after any completed refresh_status the snapshot holds exactly one
\* entry per catalog-declared container identity, the children of a grouped
\* service included, and no other key.
C1_SnapshotCoversCatalog ==
  (last_refresh # 0) =>
    /\ DOMAIN container_statuses = CatalogContainers
    /\ \A n \in DOMAIN container_statuses : container_statuses[n].name = n

\* C2: a refresh_status call that finds the Status Source disconnected and
\* whose reconnect fails leaves the snapshot as it was, shows "Disconnected"
\* and performs no container lookup.
C2_FailedReconnectKeepsSnapshot ==
  [][ (RefreshBegins /\ call'.connected = "false" /\ call'.reconnect = "false")
        => /\ container_statuses' = container_statuses
           /\ connection_status' = "Disconnected"
           /\ call'.outcome = "abandoned"
           /\ call'.lookups = 0
           /\ inflight' = inflight ]_vars

\* C2 witness: a failed reconnect was seen while a polled snapshot was held
C2_Witness ==
  /\ call.connected = "false" /\ call.reconnect = "false"
  /\ call.outcome = "abandoned"
  /\ connection_status = "Disconnected"
  /\ container_statuses \in FreshSnapshots

\* C3: a refresh_status call that finds the Status Source disconnected and
\* whose reconnect succeeds shows "Connected", goes on to query the Status
\* Source for every name, and replaces the snapshot with the result.
C3_ReconnectedRefreshCompletes ==
  [][ /\ (RefreshBegins /\ call'.connected = "false" /\ call'.reconnect = "true")
          => /\ connection_status' = "Connected"
             /\ call'.outcome = "inflight"
             /\ inflight' # inflight
      /\ (call.outcome = "inflight" /\ call.reconnect = "true" /\ call' # call)
          => /\ call'.outcome = "completed"
             /\ call'.lookups = Len(ContainerNames)
             /\ container_statuses' \in FreshSnapshots
             /\ connection_status' = "Connected"
             /\ inflight' # inflight
             /\ last_refresh' = last_refresh + 1 ]_vars

\* C3 witness: a call that reconnected has completed and replaced a snapshot
C3_Witness ==
  /\ call.connected = "false" /\ call.reconnect = "true"
  /\ call.outcome = "completed"
  /\ connection_status = "Connected"
  /\ container_statuses \in FreshSnapshots
  /\ last_refresh > 1

\* how often event e occurs in a handler's log
Count(log, e) == Cardinality({ k \in DOMAIN log : log[k] = e })

\* every e in the log comes before every f
Before(log, e, f) ==
  \A k \in DOMAIN log, m \in DOMAIN log :
    (log[k] = e /\ log[m] = f) => k < m

\* C4: every dispatch that has returned, whether its command succeeded or
\* failed and whichever screen started it, has triggered exactly one
\* refresh_status call.
C4_ExactlyOneRefresh ==
  \A i \in Invs :
    (inv[i].pc = "done"
       /\ (inv[i].kind = "toggle" \/ Count(inv[i].log, "delegate") > 0))
    => Count(inv[i].log, "refresh") = 1

\* the operation keys that contain "clean" or "restore" in any letter case
DestructiveKeys == { "restore", "Deep_CLEAN" }

\* an operation handler that got past the up-front rejections (no executor,
\* no entry for the key)
Admitted(i) ==
  /\ inv[i].kind = "operation"
  /\ command_executor
  /\ OPERATIONS[inv[i].key].present

\* C5: action_execute_operation asks for confirmation exactly once when the
\* operation key is destructive and never when it is not, and the request
\* comes before the delegate is invoked.
C5_ConfirmationIffDestructive ==
  \A i \in Invs :
    (inv[i].kind = "operation") =>
      /\ Admitted(i) =>
           Count(inv[i].log, "confirm") =
             (IF inv[i].key \in DestructiveKeys THEN 1 ELSE 0)
      /\ (inv[i].key \notin DestructiveKeys) => Count(inv[i].log, "confirm") = 0
      /\ Before(inv[i].log, "confirm", "delegate")
      /\ (inv[i].thread # "idle" /\ inv[i].key \in DestructiveKeys)
           => Count(inv[i].log, "confirm") = 1

\* C5 witness: a destructive operation whose key is spelled in upper case
\* was confirmed and handed to the delegate
C5_Witness ==
  \E i \in Invs :
    /\ inv[i].key = "Deep_CLEAN"
    /\ inv[i].log = << "confirm", "output", "notify_executing", "delegate" >>
    /\ inv[i].thread = "running"

\* C6: when the user declines the confirmation of a destructive operation
\* nothing happens: no delegate invocation, no refresh, no change of the
\* output display; the user's decline reaches the dispatcher.
C6_DeclineAborts ==
  \A i \in Invs :
    inv[i].decline =>
      /\ inv[i].thread = "idle"
      /\ Count(inv[i].log, "delegate") = 0
      /\ Count(inv[i].log, "refresh") = 0
      /\ Count(inv[i].log, "output") = 0
      /\ Count(inv[i].log, "display") = 0

\* C7 as claimed: without a command executor every dispatch that has
\* returned holds the failure CommandResult (success false, return code -1,
\* "Command executor not available").
C7_EveryEntryPointReturnsResult ==
  \A i \in Invs :
    (~command_executor /\ inv[i].pc = "done") =>
      /\ inv[i].result = [success |-> FALSE, return_code |-> -1,
                          stderr |-> "Command executor not available"]
      /\ inv[i].thread = "idle"

\* C7 amended: without a command executor no dispatch invokes the delegate;
\* execute_make_command (and the service toggle that calls it) returns the
\* failure CommandResult, while action_execute_operation ends with the error
\* notification "Command executor not available" and returns no
\* CommandResult.
C7_NoExecutorShortCircuits ==
  ~command_executor =>
    \A i \in Invs :
      /\ inv[i].thread = "idle"
      /\ Count(inv[i].log, "delegate") = 0
      /\ (inv[i].kind = "toggle") =>
           inv[i].result = [success |-> FALSE, return_code |-> -1,
                            stderr |-> "Command executor not available"]
      /\ (inv[i].kind = "operation") =>
           /\ inv[i].pc = "done"
           /\ inv[i].log = << "notify_no_executor" >>
           /\ inv[i].result = NoResult

\* C7 witness: without an executor a toggle holds the failure result and an
\* operation has ended with the notification
C7_Witness ==
  /\ ~command_executor
  /\ \E i \in Invs :
       /\ inv[i].kind = "toggle"
       /\ inv[i].result.return_code = -1
       /\ inv[i].pc = "delay_sleep"
  /\ \E j \in Invs :
       /\ inv[j].kind = "operation"
       /\ inv[j].pc = "done"
       /\ inv[j].log = << "notify_no_executor" >>

\* the operation keys whose entry declares neither a command nor a script
UndeclaredKeys == { "invalid", "empty" }

\* C8: an operation that declares neither a make target nor a script is
\* rejected with an "invalid operation" notification before any delegate
\* call: nothing is handed to the executor and no CommandResult is displayed.
C8_InvalidOperationRejected ==
  \A i \in Invs :
    (inv[i].kind = "operation" /\ inv[i].key \in UndeclaredKeys
       /\ command_executor) =>
      /\ inv[i].pc = "done"
      /\ inv[i].thread = "idle"
      /\ Count(inv[i].log, "notify_invalid") = 1
      /\ Count(inv[i].log, "delegate") = 0
      /\ Count(inv[i].log, "display") = 0
      /\ Count(inv[i].log, "notify_failed") = 0
      /\ Count(inv[i].log, "notify_success") = 0
      /\ inv[i].result = NoResult

\* C8 witness: the operation that declares only a description was rejected
C8_Witness ==
  \E i \in Invs :
    /\ inv[i].key = "invalid"
    /\ inv[i].pc = "done"
    /\ inv[i].log = << "output", "notify_invalid" >>

\* C9 as claimed: at no time are two delegated commands executing.
C9_CommandsSerialized ==
  Cardinality({ i \in Invs : inv[i].thread = "running" }) <= 1

\* C9 amended: every dispatch hands at most one command to the delegate and
\* stays suspended while that command executes; commands of different
\* dispatches are not serialized and may execute at the same time.
C9_OneCommandPerDispatch ==
  \A i \in Invs :
    /\ Count(inv[i].log, "delegate") <= 1
    /\ (inv[i].thread = "running") =>
         inv[i].pc \in { "awaiting", "cancelled", "retired" }
    /\ (inv[i].pc = "awaiting") =>
         (inv[i].thread # "idle" /\ Count(inv[i].log, "delegate") = 1)

\* C9 witness: two delegated commands are executing at the same time, each
\* for its own dispatch
C9_Witness ==
  \E i \in Invs, j \in Invs :
    /\ i # j
    /\ inv[i].thread = "running" /\ inv[i].pc = "awaiting"
    /\ inv[j].thread = "running" /\ inv[j].pc = "awaiting"

\* C10: refresh_status executions never overlap: whoever calls it (the
\* periodic loop, a manual refresh, the post-command refresh, the delayed
\* refresh), at most one call is between its first statement and its return.
C10_RefreshesSerialized == Cardinality(inflight) <= 1

\* C10 witness: the post-command refresh of a dispatch is in flight while
\* the periodic loop sleeps and another command is still executing
C10_Witness ==
  \E i \in Invs, j \in Invs, t \in Tasks :
    /\ inflight = { << "post", i >> }
    /\ tasks[t] = "sleeping"
    /\ inv[j].thread = "running"
    /\ nrefresh > 0

\* the complete results of one poll, with or without a client handle
WholeSnapshots ==
  { GetMultipleContainerStatus(ContainerNames, c, o) :
      c \in BOOLEAN, o \in Oracles }

\* C11: the snapshot is only replaced wholesale: the dict the app holds and
\* the dict the service-list screen renders and decides on are, at every
\* moment a reader can run, the empty initial dict or the complete result of
\* one poll, never a mix of two polls or a partly filled dict; a step that
\* changes the app's dict is the completion of a refresh and leaves the dict
\* the screen holds as it was unless the screen itself refreshed.
C11_WholesaleReplacement ==
  [][ /\ container_statuses' \in WholeSnapshots \cup { EmptyDict }
      /\ scr'.container_statuses \in WholeSnapshots \cup { EmptyDict }
      /\ (container_statuses' # container_statuses)
           => /\ call.outcome = "inflight" /\ call'.outcome = "completed"
              /\ container_statuses' \in WholeSnapshots
      /\ (scr'.container_statuses # scr.container_statuses)
           => scr'.container_statuses = container_statuses' ]_vars

\* C11 witness: a refresh has replaced a polled snapshot by a different one
\* while the service-list screen, which a toggle is reading, still holds the
\* old one, complete
C11_Witness ==
  /\ scr.open
  /\ scr.container_statuses \in WholeSnapshots
  /\ container_statuses \in WholeSnapshots
  /\ scr.container_statuses # container_statuses
  /\ \E i \in Invs : inv[i].kind = "toggle" /\ inv[i].pc = "delay_sleep"

\* C12: a periodic loop whose refresh_status raises on a tick stays in its
\* loop, asleep until the next tick, and emits exactly one error
\* notification for that tick without letting the exception escape; a tick
\* whose refresh does not raise emits none.
C12_LoopToleratesErrors ==
  [][ \A t \in Tasks :
        Tick(t) =>
          /\ tasks'[t] = "sleeping"
          /\ unhandled' = unhandled
          /\ call'.notified = (IF call'.outcome = "raised" THEN 1 ELSE 0) ]_vars

\* C12 witness: a tick has failed and been reported once, the loop is asleep
\* again and a further tick is to come
C12_Witness ==
  \E t \in Tasks :
    /\ call.outcome = "raised" /\ call.notified = 1
    /\ tasks[t] = "sleeping"
    /\ ~unhandled
    /\ nrefresh < MaxRefresh

C14_AtMostOneLoop ==
  [][ /\ \A t \in Tasks : (tasks'[t] \in Alive) => refresh_task' = t
      /\ \A t \in Tasks : Tick(t) => refresh_task = t
      /\ Cardinality({ t \in Tasks : tasks'[t] \in Alive }) <= 1 ]_vars

\* C14 witness: the first loop was replaced by a second one, which is in
\* the middle of a tick
C14_Witness ==
  /\ tasks[1] \in { "cancelling", "done" }
  /\ tasks[2] = "sleeping" /\ refresh_task = 2
  /\ << "loop", 2 >> \in inflight

\* C15: _stop_auto_refresh cancels the held loop and leaves no task held;
\* applied when no task is held, or a second time, it changes nothing.
C15_StopIdempotent ==
  LET once == StopResult(refresh_task, tasks)
      twice == StopResult(once.refresh_task, once.tasks)
  IN /\ once.refresh_task = 0
     /\ \A t \in Tasks :
          once.tasks[t] = IF t = refresh_task /\ tasks[t] \in Alive
                          THEN "cancelling" ELSE tasks[t]
     /\ twice = once
     /\ (refresh_task = 0) => once.tasks = tasks

\* C15 witness: the loop was stopped on the mounted app, no task is held
C15_Witness ==
  /\ phase = "mounted" /\ refresh_task = 0
  /\ \E t \in Tasks : tasks[t] \in { "cancelling", "done" }
  /\ ~unhandled

\* C16: no failure of a delegated command leaves the dispatcher as an
\* exception: also when the executor call itself raises, the handler goes on
\* with a failure CommandResult.
C16_DelegateFailuresCaptured ==
  \A i \in Invs :
    /\ (inv[i].thread = "raised") => inv[i].pc # "crashed"
    /\ (inv[i].thread = "finished" /\ inv[i].pc \in { "awaiting", "done" })
         => inv[i].result # NoResult

\* the CommandResult _execute_command has to give for an exception class
FailureMessage(exc) ==
  CASE exc = "TimeoutExpired" -> "Command timed out"
    [] exc = "FileNotFoundError" -> "Command not found"
    [] OTHER -> "Unexpected error"

\* C17: _execute_command turns a timeout, a missing executable and any
\* other exception into a CommandResult with success false, return code -1
\* and a message of its own; two failures of different classes differ in the
\* message; and whatever failed before, a call yields the result of its own
\* process outcome.
C17_FailureClassesDistinct ==
  \A k \in DOMAIN executed :
    LET e == executed[k]
    IN /\ (e.exc # "none") =>
            e.result = [success |-> FALSE, return_code |-> -1,
                        stderr |-> FailureMessage(e.exc)]
       /\ (e.exc = "none") =>
            e.result = [success |-> (e.returncode = 0),
                        return_code |-> e.returncode, stderr |-> "process"]
       /\ \A m \in DOMAIN executed :
            (e.exc # "none" /\ executed[m].exc # "none"
               /\ e.exc # executed[m].exc)
            => e.result.stderr # executed[m].result.stderr

\* C17 witness: the three failure classes have occurred one after the other
C17_Witness ==
  /\ Len(executed) = 3
  /\ { executed[k].exc : k \in DOMAIN executed } =
       { "TimeoutExpired", "FileNotFoundError", "Exception" }
  /\ \A k \in DOMAIN executed : ~executed[k].result.success

\* C18: get_multiple_container_status returns a dict with exactly one
\* ContainerStatus per requested name, each determined by the lookup of that
\* name alone: "not_found" for NotFound, "error" for APIError or any other
\* exception (and for every name when no client is held), the container's
\* status otherwise.
C18_LookupsIndependent ==
  LET r == looked_up
  IN /\ DOMAIN r.statuses = Range(r.names)
     /\ \A n \in Range(r.names) :
          /\ r.statuses[n].name = n
          /\ r.statuses[n].status =
               IF ~r.client THEN "error"
               ELSE IF r.got[n] = "NotFound" THEN "not_found"
               ELSE IF r.got[n] \in { "APIError", "Exception" } THEN "error"
               ELSE r.got[n]

\* C18 witness: the lookup of running, stopped and missing, where missing
\* is not found, has given three entries
C18_Witness ==
  /\ looked_up.names = << "running", "stopped", "missing" >>
  /\ looked_up.client
  /\ looked_up.statuses["running"].status = "running"
  /\ looked_up.statuses["stopped"].status = "exited"
  /\ looked_up.statuses["missing"].status = "not_found"

\* C19: last_refresh changes only in the step in which a refresh replaces
\* the snapshot, and it changes in every such step; a refresh_status call
\* that is abandoned after a failed reconnect (or that raises) leaves it as
\* it was.
C19_TimestampOnlyOnCompletion ==
  [][ /\ (last_refresh' # last_refresh)
           => /\ call.outcome = "inflight" /\ call'.outcome = "completed"
              /\ container_statuses' \in WholeSnapshots
      /\ (call.outcome = "inflight" /\ call'.outcome = "completed")
           => (last_refresh' # last_refresh /\ last_refresh' # 0)
      /\ (RefreshBegins /\ call'.outcome \in { "abandoned", "raised" })
           => last_refresh' = last_refresh ]_vars

\* C19 witness: after a completed refresh a later call was abandoned, the
\* timestamp is the one of the completed refresh
C19_Witness ==
  /\ call.outcome = "abandoned"
  /\ last_refresh = 1
  /\ container_statuses \in WholeSnapshots

\* C20: one refresh_status call attempts the reconnect at most once: not at
\* all when the Status Source says it is connected (or the check raises),
\* exactly once when it says it is disconnected, whether the attempt
\* succeeds, fails or raises; after a failed attempt the call ends, and a
\* further attempt belongs to a later call.
C20_ReconnectAtMostOnce ==
  [][ RefreshBegins =>
        /\ call'.attempts = (IF call'.connected = "false" THEN 1 ELSE 0)
        /\ (call'.reconnect = "false") =>
             (call'.outcome = "abandoned" /\ inflight' = inflight)
        /\ (call'.attempts = 0) <=> (call'.reconnect = "none") ]_vars

\* C20 witness: no call has completed so far, and a call after the one of
\* on_mount has found the Status Source disconnected and made its own
\* single, failed attempt
C20_Witness ==
  /\ call.connected = "false" /\ call.reconnect = "false"
  /\ call.attempts = 1
  /\ nrefresh > 0
  /\ last_refresh = 0
  /\ ~client

\* C21: the periodic loop never ends on its own: after every tick, failed or
\* not, the task is asleep towards the next one; a task stops only by being
\* cancelled in a step that takes it out of the app's hands (stop,
\* replacement by a new loop, teardown), and it ends only after that.
C21_OnlyCancellationEndsLoop ==
  [][ \A t \in Tasks :
        /\ Tick(t) => tasks'[t] = "sleeping"
        /\ (tasks[t] \in Alive /\ tasks'[t] \notin Alive)
             => /\ tasks'[t] = "cancelling"
                /\ refresh_task = t /\ refresh_task' # t
                /\ call' = call
        /\ (tasks'[t] = "done" /\ tasks[t] # "done")
             => tasks[t] = "cancelling" ]_vars

\* C21 witness: a loop whose last tick raised went on sleeping and was then
\* cancelled by the teardown
C21_Witness ==
  \E t \in Tasks :
    /\ phase = "unmounted"
    /\ tasks[t] = "cancelling"
    /\ call.outcome = "raised" /\ call.notified = 1

\* C22: the periodic loop sleeps before every refresh: the first resumption
\* of a new task calls nothing and ends in the sleep, and a refresh by the
\* loop is begun only by a task that was asleep; on_mount creates the task it
\* then holds and makes, in the same handler and outside the loop, the one
\* refresh_status call of the startup.
C22_FirstTickAfterInterval ==
  [][ /\ \A t \in Tasks :
           /\ (tasks[t] = "created" /\ tasks'[t] # tasks[t])
                => /\ tasks'[t] \in { "sleeping", "cancelling" }
                   /\ ~RefreshBegins
                   /\ inflight' = inflight
           /\ (<< "loop", t >> \in inflight' \ inflight)
                => (tasks[t] = "sleeping" /\ Tick(t))
      /\ (phase = "constructed" /\ phase' # phase)
           => /\ RefreshBegins
              /\ tasks'[1] = "created" /\ refresh_task' = 1
              /\ inflight' \subseteq { << "mount", 0 >> }
      /\ (<< "mount", 0 >> \in inflight' \ inflight) => phase = "constructed"
    ]_vars

\* C22 witness: the refresh of on_mount has completed and the loop, resumed
\* once, sleeps without having refreshed
C22_Witness ==
  /\ phase = "mounted"
  /\ tasks[1] = "sleeping" /\ refresh_task = 1
  /\ call.outcome = "completed"
  /\ last_refresh = 1 /\ nrefresh = 0

\* C23: on_unmount cancels the polling task and closes the Docker client:
\* its step leaves no task that can be resumed into a refresh, holds no task
\* and no client handle, whether the loop had not started, was asleep after a
\* good tick or after one that raised; from then on no task ticks, no
\* refresh_status call begins and the handle stays closed.
C23_UnmountCancelsLoop ==
  [][ /\ (phase = "mounted" /\ phase' = "unmounted")
           => /\ \A t \in Tasks :
                   /\ tasks'[t] \notin Alive
                   /\ (tasks[t] \in Alive) => tasks'[t] = "cancelling"
              /\ refresh_task' = 0
              /\ client' = FALSE
      /\ (phase = "unmounted")
           => /\ \A t \in Tasks : ~Tick(t) /\ << "loop", t >> \notin inflight'
              /\ ~RefreshBegins
              /\ client' = FALSE
              /\ phase' = "unmounted" ]_vars

\* C23 witness: a loop that had ticked was cancelled by on_unmount and has
\* ended; ticks were still to come
C23_Witness ==
  \E t \in Tasks :
    /\ phase = "unmounted"
    /\ tasks[t] = "done"
    /\ ~client /\ refresh_task = 0
    /\ nrefresh = 1 /\ last_refresh = 2

DispatchedLogs ==
  { pre \o << "output", "notify_executing", "delegate", "display", n >> :
      pre \in { << >>, << "confirm" >> },
      n \in { "notify_success", "notify_failed" } }

\* s is an initial part of t
IsPrefix(s, t) ==
  /\ Len(s) <= Len(t)
  /\ \A k \in DOMAIN s : s[k] = t[k]

\* C25: every invocation of action_execute_operation that is past its
\* up-front checks goes idle, confirming (only if destructive), then aborted
\* or dispatching, awaiting-result, displaying-result, idle: its events are
\* an initial part of that sequence, a returned invocation that dispatched has
\* displayed exactly one result, and an invocation whose user declines the
\* confirmation never reaches the delegate.
C25_OperationStateMachine ==
  \A i \in Invs :
    (inv[i].kind = "operation" /\ Len(inv[i].log) > 0
       /\ inv[i].log[1] \in { "confirm", "output" }) =>
      /\ \/ \E l \in DispatchedLogs : IsPrefix(inv[i].log, l)
         \/ inv[i].log \in { << "output", "notify_invalid" >>,
                             << "confirm", "output", "notify_invalid" >> }
      /\ (Count(inv[i].log, "confirm") = 1) <=> IsDestructive(inv[i].key)
      /\ (inv[i].pc = "done" /\ Count(inv[i].log, "delegate") = 1)
           => Count(inv[i].log, "display") = 1
      /\ inv[i].decline =>
           /\ inv[i].pc = "done"
           /\ inv[i].log = << "confirm" >>

\* C25 without the decline: the order of the events alone
C25_ShapeOnly ==
  \A i \in Invs :
    (inv[i].kind = "operation" /\ Len(inv[i].log) > 0
       /\ inv[i].log[1] \in { "confirm", "output" }) =>
      /\ \/ \E l \in DispatchedLogs : IsPrefix(inv[i].log, l)
         \/ inv[i].log \in { << "output", "notify_invalid" >>,
                             << "confirm", "output", "notify_invalid" >> }
      /\ (Count(inv[i].log, "confirm") = 1) <=> IsDestructive(inv[i].key)
      /\ (inv[i].pc = "done" /\ Count(inv[i].log, "delegate") = 1)
           => Count(inv[i].log, "display") = 1

\* C26: main() accepts the refresh interval exactly when it is in 1 .. 300:
\* a value outside ends the run with exit code 1 at the validation, before
\* the prerequisites are checked and without an app; a value inside,
\* 1 and 300 included, passes the validation, and the app that is then
\* constructed is given that value as its refresh_interval.
C26_IntervalBounds ==
  cli.ran =>
    /\ (cli.interval \in 1 .. 300) <=> (cli.stage # "validation")
    /\ (cli.interval \notin 1 .. 300) =>
         /\ cli.exit = 1
         /\ ~cli.prereqs_checked /\ ~cli.constructed /\ cli.applied = {}
    /\ cli.constructed => cli.applied = { cli.interval }
    /\ (/\ cli.interval \in 1 .. 300
        /\ cli.prereqs_ok /\ cli.repo_found
        /\ cli.docker # "abort" /\ cli.run # "ctor_raises")
         => (cli.constructed /\ cli.applied = { cli.interval })

\* C26 witness: the run with the interval 300 has constructed the app, given
\* it 300 and ended normally
C26_Witness ==
  /\ cli.ran /\ cli.interval = 300
  /\ cli.constructed /\ cli.applied = { 300 }
  /\ cli.exit = 0

\* the service of the catalog with the identity id
ServiceOf(id) == CHOOSE k \in DOMAIN SERVICES : SERVICES[k].id = id

\* what the container runtime o says about a service: a single-container
\* service runs when its container runs, a grouped one when a child does
RunsIn(service, o) ==
  IF Len(service.containers) > 0
  THEN \E k \in DOMAIN service.containers :
         o[service.containers[k]] = "running"
  ELSE o[service.container_name] = "running"

\* C27: action_service_action dispatches the stop target of the selected
\* service exactly when the service is running and its start target
\* otherwise, where running is what the container runtime answered at the
\* poll the screen decides on: for a single-container service about its
\* container, for a grouped service about at least one child container.
C27_StopIffRunning ==
  [][ \A i \in Invs, o \in Oracles :
        (/\ inv[i].pc = "unused" /\ inv'[i].kind = "toggle"
         /\ scr.container_statuses =
              GetMultipleContainerStatus(ContainerNames, TRUE, o))
        => LET service == SERVICES[ServiceOf(inv'[i].key)]
           IN inv'[i].cmd = IF RunsIn(service, o) THEN service.stop
                            ELSE service.start ]_vars

\* C27 for the single-container services alone
C27_SingleContainerServices ==
  [][ \A i \in Invs, o \in Oracles :
        (/\ inv[i].pc = "unused" /\ inv'[i].kind = "toggle"
         /\ Len(SERVICES[ServiceOf(inv'[i].key)].containers) = 0
         /\ scr.container_statuses =
              GetMultipleContainerStatus(ContainerNames, TRUE, o))
        => LET service == SERVICES[ServiceOf(inv'[i].key)]
           IN inv'[i].cmd = IF RunsIn(service, o) THEN service.stop
                            ELSE service.start ]_vars

\* the events of execute_make_command for a command whose result has the
\* success flag ok, up to its return
CommandEvents(ok) ==
  << "notify_executing", "delegate",
     IF ok THEN "notify_success" ELSE "notify_failed", "refresh", "result" >>

\* C28: with an executor, the events of execute_make_command come in the
\* order "Executing" notification, delegate invocation, result notification,
\* post-command refresh, return of the CommandResult: what has happened so
\* far is an initial part of that sequence, a call that has returned has gone
\* through all of it with exactly one result notification, and that
\* notification is the error one exactly when the result is a failure.
C28_CommandEventOrder ==
  \A i \in Invs :
    (inv[i].kind = "toggle" /\ Len(inv[i].log) > 0
       /\ inv[i].log[1] = "notify_executing") =>
      LET log == inv[i].log
          head == SubSeq(log, 1, IF Len(log) < 5 THEN Len(log) ELSE 5)
      IN /\ IsPrefix(head, CommandEvents(inv[i].result.success))
         /\ Count(log, "notify_executing") = 1
         /\ Count(log, "delegate") = 1
         /\ Count(log, "notify_success") + Count(log, "notify_failed") <= 1
         /\ (Count(log, "notify_failed") = 1) => ~inv[i].result.success
         /\ (Count(log, "notify_success") = 1) => inv[i].result.success
         /\ (inv[i].pc \in { "delay_sleep", "delayed_refresh", "done" })
              => head = CommandEvents(inv[i].result.success)

\* C28 witness: a command that failed has been reported with the error
\* notification, refreshed after and returned to action_service_action
C28_Witness ==
  \E i \in Invs :
    /\ inv[i].kind = "toggle" /\ inv[i].pc = "delay_sleep"
    /\ ~inv[i].result.success
    /\ Len(inv[i].log) >= 5
    /\ SubSeq(inv[i].log, 1, 5) = CommandEvents(FALSE)

\* C29: constructing a DockerClient never raises: whatever the connection
\* attempt does, a Docker error or any other exception, the object is made
\* and holds no handle unless the attempt succeeded; and every reconnect()
\* returns, with true exactly when the handle is set afterwards.
C29_ConstructionNeverRaises ==
  /\ direct.state # "raised"
  /\ (direct.state = "made" /\ direct.calls = << >>)
       => (direct.client <=> direct.ctor = << "ok", "ok" >>)
  /\ \A k \in DOMAIN direct.calls :
       /\ direct.calls[k].ret \in { "true", "false" }
       /\ (direct.calls[k].ret = "true") <=> direct.calls[k].client

\* C29 where docker.from_env and ping fail with DockerException only
C29_DockerErrorsOnly ==
  (/\ direct.ctor \in [ 1 .. 2 -> { "ok", "docker_error" } ]
   /\ \A k \in DOMAIN direct.calls :
        { direct.calls[k].from_env, direct.calls[k].ping }
          \subseteq { "ok", "docker_error" })
  => C29_ConstructionNeverRaises

\* C30: whatever sequence of action_increase_tail and action_decrease_tail
\* is run from the initial 100, tail_lines stays within 10 .. 1000; an
\* increase at 1000 and a decrease at 10 leave it as it is and call
\* refresh_logs not at all, and every other tail action moves it by at most
\* 50 in its direction and refreshes the logs.
C30_TailWithinBounds ==
  [][ /\ viewer'.tail_lines \in 10 .. 1000
      /\ (viewer.tail_lines = 1000 /\ viewer'.last = "increase")
           => (viewer'.tail_lines = 1000 /\ ~viewer'.refreshed)
      /\ (viewer.tail_lines = 10 /\ viewer'.last = "decrease")
           => (viewer'.tail_lines = 10 /\ ~viewer'.refreshed)
      /\ (viewer.tail_lines < 1000 /\ viewer'.last = "increase")
           => /\ viewer'.tail_lines > viewer.tail_lines
              /\ viewer'.tail_lines <= viewer.tail_lines + 50
              /\ viewer'.refreshed
      /\ (viewer.tail_lines > 10 /\ viewer'.last = "decrease")
           => /\ viewer'.tail_lines < viewer.tail_lines
              /\ viewer'.tail_lines >= viewer.tail_lines - 50
              /\ viewer'.refreshed ]_vars

\* C30 witness: tail_lines has been raised to 1000 and a further increase
\* was answered with the warning, without a refresh
C30_Witness ==
  /\ viewer.tail_lines = 1000
  /\ viewer.last = "increase"
  /\ viewer.warned /\ ~viewer.refreshed


\* C31: the log viewer holds at most one log-follow task. With a task held
\* _start_following changes nothing, and _stop_following always leaves no
\* handle and the flag off; after any sequence of toggle, clear, back and
\* unmount the following flag is on exactly when a task handle is held and
\* at most one follow task is alive; once the screen was left by action_back
\* or on_unmount no handle is held and no follow task is alive.
C31_OneFollowTask ==
  /\ viewer.following <=> viewer.follow_task # "none"
  /\ viewer.live <= 1
  /\ viewer.live = 1 <=> viewer.follow_task = "alive"
  /\ viewer.follow_task # "none"
       => \A created \in BOOLEAN : StartFollowing(viewer, created) = viewer
  /\ StopFollowing(viewer).follow_task = "none"
  /\ ~StopFollowing(viewer).following
  /\ viewer.stage \in { "dismissed", "unmounted" }
       => viewer.follow_task = "none" /\ viewer.live = 0 /\ ~viewer.following

\* C31 witness: following was switched on, the follow task has iterated and
\* is still held and alive
C31_Witness ==
  /\ viewer.stage = "mounted"
  /\ viewer.following /\ viewer.follow_task = "alive" /\ viewer.live = 1
  /\ viewer.last = "follow"


\* C37: the buffered log lines stay bounded: in every state of the log
\* viewer, whatever follow-loop iterations, tail changes, refreshes and
\* clears came before, logs_content has at most twice tail_lines lines.
C37_LogsBounded ==
  viewer.len <= 2 * viewer.tail_lines

\* C37, what the follow loop does keep: an iteration that changed
\* logs_content leaves at most twice tail_lines lines.
C37_TrimmedAfterAppend ==
  [][ (viewer'.last = "follow" /\ viewer'.len # viewer.len)
        => viewer'.len <= 2 * viewer'.tail_lines ]_vars


\* the entries of statuses that the start-or-stop decision for service reads
Consulted(service, statuses) ==
  LET names == IF Len(service.containers) > 0
               THEN { service.containers[k] : k \in DOMAIN service.containers }
               ELSE { service.container_name }
  IN { << n, IF n \in DOMAIN statuses THEN statuses[n]
             ELSE [status |-> "absent"] >> : n \in names }

\* C32: whenever action_service_action decides between start and stop, the
\* status it consults is the entry of the current snapshot of the app: a
\* replacement of the snapshot by the app is seen by the next decision of
\* the screen without a refresh action of the screen.
C32_DecisionOnCurrentSnapshot ==
  [][ \A i \in Invs :
        (inv[i].pc = "unused" /\ inv'[i].kind = "toggle")
        => LET service == SERVICES[ServiceOf(inv'[i].key)]
           IN Consulted(service, scr.container_statuses)
                = Consulted(service, container_statuses) ]_vars


\* C33: the service that toggle, logs and details act on is the service that
\* owns the highlighted row of the table, for every row, the group row and
\* the container rows of a grouped service included.
C33_ActsOnHighlightedService ==
  \A k \in DOMAIN table.picks :
    table.picks[k].target = TableRows[table.picks[k].row + 1].owner

\* C33, what holds: on the rows above the first container row, which
\* are the rows of the single services and the group row of the last,
\* grouped service, the action goes to the owner of the row.
C33_ServiceRowsOnly ==
  \A k \in DOMAIN table.picks :
    table.picks[k].row < Len(SERVICES)
    => table.picks[k].target = TableRows[table.picks[k].row + 1].owner


\* C34: after on_unmount no refresh_status runs any more and the closed
\* Docker client is not connected again, whatever was under way at the
\* teardown: a delegated command or a delayed refresh of the service list
\* that completes afterwards included.
C34_NoRefreshAfterUnmount ==
  [][ phase = "unmounted" => (~RefreshBegins /\ client' = FALSE) ]_vars


\* C35: every CommandResult of the Command Delegate and of the short-circuit
\* paths of the dispatcher has success exactly when return_code is 0; the
\* result of an executed process carries its exit code, and every internal
\* failure (timeout, missing executable, missing script, unexpected
\* exception, missing executor) has success false and return_code -1.
C35_SuccessIffZero ==
  /\ \A i \in Invs :
       inv[i].result # NoResult
       => /\ inv[i].result.success <=> (inv[i].result.return_code = 0)
          /\ inv[i].result.stderr # "process"
               => (~inv[i].result.success /\ inv[i].result.return_code = -1)
  /\ \A q \in ProcOutcomes :
       q.exc = "none" => ExecuteScript(TRUE, q).return_code = q.returncode

\* C35 witness: one command ended on its timeout and another as a process
\* with exit code 2
C35_Witness ==
  \E i, j \in Invs :
    /\ inv[i].thread = "finished"
    /\ inv[i].result.stderr = "Command timed out"
    /\ inv[j].result.stderr = "process" /\ inv[j].result.return_code = 2


\* C36: after every return of refresh_status the connection indicator tells
\* what the call did: it shows "Connected" when the call replaced the
\* snapshot and "Disconnected" when the call was abandoned, the step that
\* replaces the snapshot and the step that abandons the call show just that,
\* and no step other than the start of a refresh_status call changes the
\* indicator.
C36_IndicatorConsistent ==
  [][ /\ (call'.outcome \in { "inflight", "completed" })
           => connection_status' = "Connected"
      /\ (call'.outcome = "abandoned") => connection_status' = "Disconnected"
      /\ (call.outcome = "inflight" /\ call'.outcome = "completed")
           => (last_refresh' = last_refresh + 1
               /\ connection_status' = "Connected")
      /\ (RefreshBegins /\ call'.outcome = "abandoned")
           => (UNCHANGED << container_statuses, last_refresh >>
               /\ connection_status' = "Disconnected")
      /\ (connection_status' = "Disconnected") => call'.outcome # "completed"
      /\ (~RefreshBegins) => UNCHANGED connection_status ]_vars

\* C36 witness: a call was abandoned after a call that had replaced the
\* snapshot, and the indicator shows "Disconnected"
C36_Witness ==
  /\ call.outcome = "abandoned"
  /\ last_refresh > 0
  /\ connection_status = "Disconnected"

====
